---- MODULE Spec2Model ----
(***************************************************************************)
(* SemanticSentimentAnalyzer (src/semantic_sentiment_analyzer.py) with its *)
(* enrichment collaborator GeminiCulturalAnalyzer                          *)
(* (src/gemini_integration.py): the bounded result cache, the heuristic    *)
(* baseline, the optional collaborator call and the merge of its reply.    *)
(*                                                                         *)
(* A Python dict keeps insertion order, so analysis_cache is a sequence of *)
(* [key, value] entries, oldest first.  A dict key that is absent is the    *)
(* value Absent.  Input texts are numbered 1, 2, ...: each number stands   *)
(* for one distinct raw string.                                            *)
(***************************************************************************)
EXTENDS Integers, Sequences, FiniteSets, TLC

\* ---------------------------------------------------------------- bounds
MaxTexts == 121       \* distinct texts submitted under Spec
MaxHits == 1          \* cache hits submitted under Spec
MaxReinserts == 1     \* evicted texts submitted again under Spec
MaxCalls == 2         \* calls under SpecEnrich
MaxLen == 3           \* characters of the longest text under SpecMatch and
                      \* SpecSimilarity
MaxMatches == 2       \* candidates in a match list under SpecClassify
MaxTextLength == 400  \* characters of the longest text under SpecClassify
WarmSlack == 0        \* how far below capacity the cache may be when the threads
                      \* of SpecThreads start
NumTexts == 2         \* distinct texts under SpecEnrich
MaxIndicators == 3    \* indicators of one kind in a text under SpecSentiment
MaxImages == 3        \* images counted by the statistics under SpecStats
MaxSeconds == 2       \* the longest processing time under SpecStats
MaxAnalyzed == 152    \* distinct texts under SpecThreePart

\* ------------------------------------------------------ program constants
cache_max_size == 100
\* ThreePartTamilAnalyzer.cache_max_size
three_part_cache_max_size == 100
\* Config.KAMBARAMAYANAM_CONFIDENCE_THRESHOLD = 0.5; scores are in thousandths.
confidence_threshold == 500
\* The names identify_cultural_elements looks for, and its literary devices.
NumCharacters == 9
NumKeywords == 9
NumLiteraryDevices == 3

Absent == "<absent>"
NoObject == "None"
AnalyzerObject == "GeminiCulturalAnalyzer"
PlaceholderKey == "your_gemini_api_key_here"
CachedProcessingTime == "0.1s (cached)"

VARIABLES
    analysis_cache,    \* self.analysis_cache, oldest entry first
    gemini_enabled,    \* self.gemini_enabled
    gemini_analyzer,   \* self.gemini_analyzer: NoObject or AnalyzerObject
    is_available,      \* self.gemini_analyzer.is_available
    returned,          \* <<>> before the first call, then <<what the last call returned>>
    last_call,         \* <<>> or <<[text, hit, http]>> of the last call
    calls,             \* completed calls of analyze_semantic_sentiment
    heuristic_runs,    \* runs of the two _basic_* analyses
    requests,          \* HTTP requests posted by _make_request
    evicted_count,     \* entries deleted by _clean_cache so far
    next_text,         \* the smallest text never submitted
    threads,           \* the worker threads of app.run(threaded=True): where each
                       \* one stands in its call and the locals of that call
    probe              \* the arguments and, once it has run, the result of a
                       \* function of the matching pipeline

vars == <<analysis_cache, gemini_enabled, gemini_analyzer, is_available, returned,
          last_call, calls, heuristic_runs, requests, evicted_count, next_text,
          threads, probe>>

\* ------------------------------------------------- the collaborator's replies
\* What requests.post can do.  A reply text is described by what the parsing
\* code can tell apart: surrounding whitespace, a markdown fence, and what
\* json.loads makes of the body.
\* form: "blank" (whitespace only), "prose" (not JSON), "json_object" (the
\* payload asked for), "json_scalar" (JSON that is no object),
\* "json_bad_types" (an object whose source_book is not a string).
\* fence: "none", "json" (```json ... ```), "plain" (``` ... ```), "unclosed".
\* rich: the payload names a source book and a sentiment.
NoText == [form |-> "None", fence |-> "none", padded |-> FALSE, rich |-> FALSE]
EmptyText == [form |-> "empty", fence |-> "none", padded |-> FALSE, rich |-> FALSE]

ReplyText(form, fence, padded, rich) ==
    [form |-> form, fence |-> fence, padded |-> padded, rich |-> rich]

\* An HTTP outcome: how the post ends, and the text of the first candidate.
Http(kind, text) == [kind |-> kind, text |-> text]

FailureKinds == {"timeout", "request_exception", "unexpected_exception",
                 "status_503", "status_500", "no_candidates"}

FailedHttp == {Http(k, NoText) : k \in FailureKinds}

OkTexts ==
    { ReplyText("blank", "none", TRUE, FALSE),
      ReplyText("prose", "none", TRUE, FALSE),
      ReplyText("prose", "unclosed", FALSE, FALSE),
      ReplyText("json_object", "none", FALSE, TRUE),
      ReplyText("json_object", "json", TRUE, TRUE),
      ReplyText("json_object", "plain", FALSE, FALSE),
      ReplyText("json_object", "unclosed", FALSE, TRUE),
      ReplyText("json_scalar", "none", FALSE, FALSE),
      ReplyText("json_bad_types", "json", FALSE, TRUE) }

OkHttp == {Http("status_200", t) : t \in OkTexts}

HttpOutcomes == FailedHttp \cup OkHttp

\* str.strip(): surrounding whitespace goes; a blank text becomes empty.
Strip(t) ==
    IF t.form = "blank" THEN EmptyText ELSE [t EXCEPT !.padded = FALSE]

\* Python truthiness of an Optional[str].
Truthy(t) == t.form \notin {"None", "empty"}

\* Every function of the chain also reports `posts`, the number of HTTP
\* requests it caused.

\* _make_request answering a failed post with a canned fallback text.
FallbackText == ReplyText("prose", "none", FALSE, FALSE)
MakeRequestWithFallback(http) ==
    IF ~is_available THEN [content |-> NoText, posts |-> 0]
    ELSE IF http.kind = "status_200" THEN [content |-> Strip(http.text), posts |-> 1]
    ELSE [content |-> FallbackText, posts |-> 1]

\* _make_request posting a second time when the first post fails.
MakeRequestWithRetry(http) ==
    IF ~is_available THEN [content |-> NoText, posts |-> 0]
    ELSE IF http.kind = "status_200" THEN [content |-> Strip(http.text), posts |-> 1]
    ELSE [content |-> NoText, posts |-> 2]

\* GeminiCulturalAnalyzer._make_request: the content of the first candidate,
\* stripped, or None; every exception of the post is caught.
_make_request(http) ==
    IF ~is_available THEN [content |-> NoText, posts |-> 0]
    ELSE IF http.kind = "status_200" THEN [content |-> Strip(http.text), posts |-> 1]
    ELSE [content |-> NoText, posts |-> 1]

\* _call_gemini_api, lines 212-220: what it makes of _make_request's response.
ApiResponse(response) ==
    IF Truthy(response.content)
    THEN [success |-> TRUE, content |-> response.content, posts |-> response.posts]
    ELSE [success |-> FALSE, content |-> NoText, posts |-> response.posts]

\* GeminiCulturalAnalyzer._call_gemini_api
_call_gemini_api(http) ==
    IF ~is_available THEN [success |-> FALSE, content |-> NoText, posts |-> 0]
    ELSE ApiResponse(_make_request(http))

\* get_conversational_meaning, lines 403-405: {'text': content} on success.
MeaningResponse(api_response) ==
    IF api_response.success
    THEN [none |-> FALSE, text |-> api_response.content, posts |-> api_response.posts]
    ELSE [none |-> TRUE, text |-> NoText, posts |-> api_response.posts]

\* GeminiCulturalAnalyzer.get_conversational_meaning: {'text': ...} or None
get_conversational_meaning(http) ==
    IF ~is_available THEN [none |-> TRUE, text |-> NoText, posts |-> 0]
    ELSE MeaningResponse(_call_gemini_api(http))

\* ------------------------------------------------------- heuristic baseline
\* The indicator lists of _basic_sentiment_analysis decide the label from the
\* text alone; the numbered texts cycle through the three labels.
HeuristicLabel(text) ==
    IF text % 3 = 1 THEN "positive" ELSE IF text % 3 = 2 THEN "negative" ELSE "neutral"

\* A 'meaning' string: who wrote it and from what.
Meaning(by, text, reply) == [by |-> by, text |-> text, reply |-> reply]

\* SemanticSentimentAnalyzer._generate_basic_meaning: a canned or
\* length-bucketed Tamil sentence, never empty.
_generate_basic_meaning(text) == Meaning("heuristic", text, NoText)

\* SemanticSentimentAnalyzer._basic_semantic_analysis.  stats_of stands for
\* the counts and themes computed from the text (word_count, character_count,
\* language_detected, text_complexity, key_themes, semantic_density).
_basic_semantic_analysis(text) ==
    [stats_of |-> text,
     meaning |-> _generate_basic_meaning(text),
     explanation |-> Absent,
     source_book |-> Absent,
     cultural_context |-> Absent,
     themes |-> Absent]

\* SemanticSentimentAnalyzer._basic_sentiment_analysis.  counts_of stands for
\* the indicator counts, strength and detailed_analysis computed from the text.
_basic_sentiment_analysis(text) ==
    [counts_of |-> text,
     overall_sentiment |-> HeuristicLabel(text),
     confidence |-> "heuristic",
     explanation |-> Absent]

\* ------------------------------------------------ parsing the collaborator reply
\* The two regex branches of _get_gemini_semantic_sentiment: a closed fence is
\* cut away, an unclosed one stays in the text.
StripFence(t) ==
    IF t.fence \in {"json", "plain"} THEN [t EXCEPT !.fence = "none"] ELSE t

\* json.loads on the cleaned text: "decode_error" (JSONDecodeError), "dict",
\* or "not_dict" (a JSON scalar, list or null).
JsonLoads(t) ==
    IF t.fence # "none" \/ t.form = "prose" THEN "decode_error"
    ELSE IF t.form = "json_scalar" THEN "not_dict"
    ELSE "dict"

\* What the enhancement returns: {} or {'semantic': ..., 'sentiment': ...}.
EmptyDict == [empty |-> TRUE, semantic |-> <<>>, sentiment |-> <<>>]
Enhancement(sem, sen) == [empty |-> FALSE, semantic |-> sem, sentiment |-> sen]

\* The dict built from a parsed payload (lines 340-398).
StructuredResult(clean) ==
    Enhancement(
        [meaning |-> Meaning("structured", 0, clean),
         explanation |-> IF clean.rich THEN "payload" ELSE "",
         source_book |-> IF clean.rich THEN "payload" ELSE "",
         themes |-> "[]"],
        [overall_sentiment |-> IF clean.rich THEN "devotional" ELSE "neutral",
         confidence |-> "0.9",
         explanation |-> "gemini"])

\* The dict built when json.loads raises JSONDecodeError (lines 400-415): the
\* text as returned by the collaborator becomes the meaning.
RawTextResult(response_text) ==
    Enhancement(
        [meaning |-> Meaning("raw", 0, response_text),
         explanation |-> "raw",
         cultural_context |-> "unavailable",
         themes |-> "[]"],
        [overall_sentiment |-> "neutral",
         confidence |-> "0.7",
         explanation |-> "basic"])

\* Lines 338-415: json.loads of the cleaned text and what is built from it.
\* A JSON value that is no dict raises AttributeError at the first .get, an
\* ill-typed field raises TypeError in the string concatenation; both end in
\* the `except Exception` of line 417, which returns {}.
ParsedValue(response_text, clean) ==
    IF JsonLoads(clean) = "decode_error" THEN RawTextResult(response_text)
    ELSE IF JsonLoads(clean) = "not_dict" THEN EmptyDict
    ELSE IF clean.form = "json_bad_types" THEN EmptyDict
    ELSE StructuredResult(clean)

\* Lines 317-415: `if response and response.get('text')` and the parsing.
ParseResponse(response) ==
    [raised |-> Absent,
     posts |-> response.posts,
     value |-> IF response.none \/ ~Truthy(response.text) THEN EmptyDict
               ELSE ParsedValue(response.text, StripFence(Strip(response.text)))]

\* SemanticSentimentAnalyzer._get_gemini_semantic_sentiment.  Returns
\* [raised, value, posts]: the guard of line 310 is outside the try, everything
\* after it is inside `except Exception`, which returns {}.
_get_gemini_semantic_sentiment(http) ==
    IF gemini_analyzer = NoObject \/ ~is_available
    THEN [raised |-> Absent, value |-> EmptyDict, posts |-> 0]
    ELSE ParseResponse(get_conversational_meaning(http))

\* dict.update: the keys of `upd` overwrite, the others stay.
DictUpdate(d, upd) ==
    [k \in (DOMAIN d) \cup (DOMAIN upd) |-> IF k \in DOMAIN upd THEN upd[k] ELSE d[k]]

\* ------------------------------------------------------------- the cache
\* A key made from the text without its leading spaces; in the number of a
\* text of characters the first character is the lowest digit to the base 8, and
\* a space is the digit 5.
RECURSIVE TrimmedNumber(_)
TrimmedNumber(text) ==
    IF text % 8 = 5 THEN TrimmedNumber(text \div 8) ELSE text

KeyOfTrimmed(text) == <<"md5", TrimmedNumber(text)>>

\* SemanticSentimentAnalyzer._get_cache_key: the MD5 hex digest of the UTF-8
\* bytes of the raw text; distinct texts of the model have distinct digests.
_get_cache_key(text) == <<"md5", text>>

CacheKeys(cache) == {cache[i].key : i \in DOMAIN cache}

\* `key in cache`
CacheHas(cache, key) == key \in CacheKeys(cache)

\* cache[key]
CacheGet(cache, key) == cache[CHOOSE i \in DOMAIN cache : cache[i].key = key].value

\* cache[key] = value: a new key goes to the end, a present key keeps its place.
\* An assignment that adds an entry even when the key is present.
CacheSetAppend(cache, key, value) == Append(cache, [key |-> key, value |-> value])

CacheSet(cache, key, value) ==
    IF CacheHas(cache, key)
    THEN [i \in DOMAIN cache |->
             IF cache[i].key = key THEN [key |-> key, value |-> value] ELSE cache[i]]
    ELSE Append(cache, [key |-> key, value |-> value])

\* _clean_cache with the size test off by one (cleans only above max + 1).
CleanCacheLate(cache) ==
    IF Len(cache) > cache_max_size + 1
    THEN LET items_to_remove == Len(cache) \div 5
             keys_to_remove == {cache[i].key : i \in 1..items_to_remove}
         IN  SelectSeq(cache, LAMBDA e : e.key \notin keys_to_remove)
    ELSE cache

\* _clean_cache taking the keys from the wrong end of the key list.
CleanCacheNewest(cache) ==
    IF Len(cache) > cache_max_size
    THEN LET items_to_remove == Len(cache) \div 5
             keys_to_remove ==
                 {cache[i].key : i \in (Len(cache) - items_to_remove + 1)..Len(cache)}
         IN  SelectSeq(cache, LAMBDA e : e.key \notin keys_to_remove)
    ELSE cache

\* _clean_cache removing a quarter instead of a fifth.
CleanCacheQuarter(cache) ==
    IF Len(cache) > cache_max_size
    THEN LET items_to_remove == Len(cache) \div 4
             keys_to_remove == {cache[i].key : i \in 1..items_to_remove}
         IN  SelectSeq(cache, LAMBDA e : e.key \notin keys_to_remove)
    ELSE cache

\* SemanticSentimentAnalyzer._clean_cache
_clean_cache(cache) ==
    IF Len(cache) > cache_max_size
    THEN LET items_to_remove == Len(cache) \div 5
             keys_to_remove == {cache[i].key : i \in 1..items_to_remove}
         IN  SelectSeq(cache, LAMBDA e : e.key \notin keys_to_remove)
    ELSE cache

\* ------------------------------------------------------------ the analyzer
\* Line 101: whether the enhancement branch is entered.
EnhancementAttempted == gemini_enabled /\ gemini_analyzer # NoObject

\* Line 105: `if enhanced_analysis:` is reached without an exception and the
\* dict is not empty.
GotEnhancement(attempt, got) == attempt /\ got.raised = Absent /\ ~got.value.empty

\* Line 111 moved out of `if enhanced_analysis:`.
EnhancedWheneverAttempted(attempt, got) == attempt /\ got.raised = Absent

\* Lines 105-111: enhanced_analysis becomes True only inside
\* `if enhanced_analysis:`.
Enhanced(attempt, got) == GotEnhancement(attempt, got)

\* The result dict assembled on a miss (lines 84-121) from the heuristic
\* sections and what the enhancement returned; `posts` is not a key of the
\* dict, it counts the HTTP requests of the call.
AssembleResult(text, elapsed, stamp, attempt, got) ==
    [posts |-> IF attempt THEN got.posts ELSE 0,
     input_text |-> text,
     semantic_analysis |->
         IF GotEnhancement(attempt, got)
         THEN DictUpdate(_basic_semantic_analysis(text), got.value.semantic)
         ELSE _basic_semantic_analysis(text),
     sentiment_analysis |->
         IF GotEnhancement(attempt, got)
         THEN DictUpdate(_basic_sentiment_analysis(text), got.value.sentiment)
         ELSE _basic_sentiment_analysis(text),
     enhanced_analysis |-> Enhanced(attempt, got),
     gemini_error |-> IF attempt THEN got.raised ELSE Absent,
     processing_time |-> elapsed,
     timestamp |-> stamp,
     cached |-> FALSE]

ComputeResult(text, http, elapsed, stamp) ==
    AssembleResult(text, elapsed, stamp, EnhancementAttempted,
                   _get_gemini_semantic_sentiment(http))

\* The dict without the request count.
ResultDict(computed) == [k \in (DOMAIN computed) \ {"posts"} |-> computed[k]]

\* The membership test of line 74 passing over degraded entries.
CacheHitEnhancedOnly(cache, key) ==
    CacheHas(cache, key) /\ CacheGet(cache, key).enhanced_analysis

\* Line 74: `cache_key in self.analysis_cache`.
CacheHit(cache, key) == CacheHas(cache, key)

\* A hit that stamps the copy anew.
HitResultRestamped(stored) ==
    [stored EXCEPT !.cached = TRUE, !.processing_time = CachedProcessingTime,
                   !.timestamp = stored.timestamp + 1]

\* A hit that hands out the stored dict unmarked.
HitResultUnmarked(stored) == stored

\* The copy handed out on a hit (lines 76-79).
HitResult(stored) ==
    [stored EXCEPT !.cached = TRUE, !.processing_time = CachedProcessingTime]

\* SemanticSentimentAnalyzer.analyze_semantic_sentiment, one whole call.
analyze_semantic_sentiment(text, http, elapsed) ==
    LET cache_key == _get_cache_key(text) IN
    /\ calls' = calls + 1
    /\ next_text' = IF text >= next_text THEN text + 1 ELSE next_text
    /\ UNCHANGED <<gemini_enabled, gemini_analyzer, is_available, threads, probe>>
    /\ IF CacheHit(analysis_cache, cache_key)
       THEN /\ returned' = <<HitResult(CacheGet(analysis_cache, cache_key))>>
            /\ last_call' = <<[text |-> text, hit |-> TRUE, http |-> http]>>
            /\ UNCHANGED <<analysis_cache, heuristic_runs, requests, evicted_count>>
       ELSE \E computed \in {ComputeResult(text, http, elapsed, heuristic_runs + 1)} :
            \E stored \in {CacheSet(analysis_cache, cache_key, ResultDict(computed))} :
                /\ analysis_cache' = _clean_cache(stored)
                /\ evicted_count' = evicted_count + (Len(stored) - Len(analysis_cache'))
                /\ heuristic_runs' = heuristic_runs + 1
                /\ requests' = requests + computed.posts
                /\ returned' = <<ResultDict(computed)>>
                /\ last_call' = <<[text |-> text, hit |-> FALSE, http |-> http]>>

\* ------------------------------------------------------------ worker threads
\* semantic_app.py runs Flask with threaded=True: every request is served by
\* its own thread and all of them call the one module-level analyzer.  The
\* interpreter switches threads between bytecodes, so each access to
\* self.analysis_cache is a step of its own.
Threads == {1, 2}

\* No function of the matching pipeline has been called.
NoProbe == [op |-> "none"]

IdleThread ==
    [pc |-> "idle", text |-> 0, analysis_result |-> <<>>,
     items_to_remove |-> 0, keys_to_remove |-> <<>>, outcome |-> <<>>]

\* ------------------------------------------------------------ construction
ApiKeys == {"", "   ", PlaceholderKey, "AIza-key"}

\* Config.is_gemini_available
is_gemini_available(api_key) == api_key \notin {"", "   "}

\* GeminiCulturalAnalyzer.__init__
AnalyzerAvailable(api_key) == api_key # "" /\ api_key # PlaceholderKey

\* SemanticSentimentAnalyzer.__init__ and, with the same Config and the same
\* three fields, TamilContextAnalyzer.__init__.
Construct ==
    \E enable \in BOOLEAN, imported \in BOOLEAN, api_key \in ApiKeys,
       constructed \in BOOLEAN :
        /\ gemini_enabled =
               (enable /\ imported /\ is_gemini_available(api_key) /\ constructed)
        /\ gemini_analyzer = IF gemini_enabled THEN AnalyzerObject ELSE NoObject
        /\ is_available = (gemini_enabled /\ AnalyzerAvailable(api_key))
        /\ analysis_cache = <<>>
        /\ returned = <<>>
        /\ last_call = <<>>
        /\ calls = 0
        /\ heuristic_runs = 0
        /\ requests = 0
        /\ evicted_count = 0
        /\ next_text = 1
        /\ threads = [t \in Threads |-> IdleThread]

Init == Construct /\ probe = NoProbe

\* ------------------------------------------------------------ the workloads
ElapsedTimes == {"0.00s", "1.52s"}

\* Under Spec the collaborator's answer and the elapsed time are fixed per
\* text, cycling through successes, malformed replies and failures.
HttpCycle ==
    << Http("status_200", ReplyText("json_object", "json", TRUE, TRUE)),
       Http("timeout", NoText),
       Http("status_200", ReplyText("prose", "none", TRUE, FALSE)),
       Http("status_503", NoText),
       Http("status_200", ReplyText("json_scalar", "none", FALSE, FALSE)),
       Http("no_candidates", NoText),
       Http("request_exception", NoText) >>

WorkloadHttp(text) == HttpCycle[(text % Len(HttpCycle)) + 1]
WorkloadElapsed(text) == IF text % 2 = 0 THEN "0.00s" ELSE "1.52s"

Submit(text) ==
    \E http \in {WorkloadHttp(text)}, elapsed \in {WorkloadElapsed(text)} :
        analyze_semantic_sentiment(text, http, elapsed)

\* The text whose key an entry holds.
TextOf(entry) == CHOOSE t \in 1..(next_text - 1) : _get_cache_key(t) = entry.key

HitsDone == calls - heuristic_runs
ReinsertsDone == heuristic_runs - (next_text - 1)
EvictedTexts == {t \in 1..(next_text - 1) : ~CacheHas(analysis_cache, _get_cache_key(t))}
Min(S) == CHOOSE x \in S : \A y \in S : x <= y

\* A text never seen before.
SubmitFresh ==
    /\ next_text <= MaxTexts
    /\ \E text \in {next_text} : Submit(text)

\* The text of the oldest entry of the cache.
SubmitCached ==
    /\ HitsDone < MaxHits
    /\ analysis_cache # <<>>
    /\ \E text \in {TextOf(analysis_cache[1])} : Submit(text)

\* A text that was evicted: the first one that was.
SubmitEvicted ==
    /\ ReinsertsDone < MaxReinserts
    /\ EvictedTexts # {}
    /\ \E text \in {Min(EvictedTexts)} : Submit(text)

Next == SubmitFresh \/ SubmitCached \/ SubmitEvicted

Spec == Init /\ [][Next]_vars

\* Few calls, every reply of the collaborator.
AnalyzeAny ==
    /\ calls < MaxCalls
    /\ \E text \in 1..NumTexts, http \in HttpOutcomes, elapsed \in ElapsedTimes :
           analyze_semantic_sentiment(text, http, elapsed)

NextEnrich == AnalyzeAny

SpecEnrich == Init /\ [][NextEnrich]_vars

\* Two requests arrive on a cache that sequential calls have filled; each is
\* served by a thread of its own.
ThreadCalls == Cardinality({t \in Threads : threads[t].pc # "idle"})
Finished(t) == threads[t].pc \in {"returned", "raised"}
Running(t) == threads[t].pc \notin {"idle", "returned", "raised"}

\* The cache sizes at which the first threaded call starts: an empty cache and
\* a cache at or just below its capacity.
WarmSizes == {0} \cup ((cache_max_size - WarmSlack)..cache_max_size)

\* What the collaborator answers to each worker thread: a payload to the
\* first, a timeout to the second.
ThreadHttp(t) == HttpCycle[t]

\* A sequential call before the threads start.
Warmup ==
    /\ ThreadCalls = 0
    /\ Len(analysis_cache) < cache_max_size
    /\ \E text \in {next_text} : Submit(text)

\* The texts a thread is asked about: a new one, the oldest cached one, the
\* one the other thread is working on.
ThreadTexts(t) ==
    {next_text}
    \cup {TextOf(analysis_cache[i]) : i \in {1} \cap DOMAIN analysis_cache}
    \cup {threads[u].text : u \in {u \in Threads : u # t /\ Running(u)}}

ThreadStep(t, pc, fields) ==
    threads' = [threads EXCEPT ![t] = [k \in DOMAIN threads[t] |->
                   IF k = "pc" THEN pc
                   ELSE IF k \in DOMAIN fields THEN fields[k]
                   ELSE threads[t][k]]]

ThreadReturn(t, value) ==
    ThreadStep(t, "returned", [outcome |-> <<[raised |-> Absent, value |-> <<value>>]>>])

ThreadRaise(t, exception) ==
    ThreadStep(t, "raised", [outcome |-> <<[raised |-> exception, value |-> <<>>]>>])

\* A request arrives and its thread enters analyze_semantic_sentiment.
ThreadStart(t) ==
    /\ threads[t].pc = "idle"
    /\ ThreadCalls > 0 \/ Len(analysis_cache) \in WarmSizes
    /\ \E text \in ThreadTexts(t) :
           /\ threads' = [threads EXCEPT ![t] =
                  [IdleThread EXCEPT !.pc = "check", !.text = text]]
           /\ next_text' = IF text >= next_text THEN text + 1 ELSE next_text
    /\ calls' = calls + 1
    /\ UNCHANGED <<probe, analysis_cache, gemini_enabled, gemini_analyzer, is_available,
                   returned, last_call, heuristic_runs, requests, evicted_count>>

\* Line 74: `if cache_key in self.analysis_cache`.
ThreadCheck(t) ==
    /\ threads[t].pc = "check"
    /\ IF CacheHit(analysis_cache, _get_cache_key(threads[t].text))
       THEN ThreadStep(t, "hit_read", <<>>)
       ELSE ThreadStep(t, "compute", <<>>)
    /\ UNCHANGED <<probe, analysis_cache, gemini_enabled, gemini_analyzer, is_available,
                   returned, last_call, calls, heuristic_runs, requests,
                   evicted_count, next_text>>

\* Lines 76-79: `self.analysis_cache[cache_key].copy()`, a KeyError when the
\* key is gone, then the two marks and the return.
ThreadHitRead(t) ==
    /\ threads[t].pc = "hit_read"
    /\ IF CacheHas(analysis_cache, _get_cache_key(threads[t].text))
       THEN ThreadReturn(t, HitResult(CacheGet(analysis_cache,
                                               _get_cache_key(threads[t].text))))
       ELSE ThreadRaise(t, "KeyError")
    /\ UNCHANGED <<probe, analysis_cache, gemini_enabled, gemini_analyzer, is_available,
                   returned, last_call, calls, heuristic_runs, requests,
                   evicted_count, next_text>>

\* Lines 81-119: the heuristics and the enrichment, on locals only.
ThreadCompute(t) ==
    /\ threads[t].pc = "compute"
    /\ \E computed \in {ComputeResult(threads[t].text, ThreadHttp(t),
                                   WorkloadElapsed(threads[t].text),
                                   heuristic_runs + 1)} :
        /\ ThreadStep(t, "store", [analysis_result |-> <<ResultDict(computed)>>])
        /\ requests' = requests + computed.posts
    /\ heuristic_runs' = heuristic_runs + 1
    /\ UNCHANGED <<probe, analysis_cache, gemini_enabled, gemini_analyzer, is_available,
                   returned, last_call, calls, evicted_count, next_text>>

\* Line 122: `self.analysis_cache[cache_key] = analysis_result.copy()`.
ThreadStore(t) ==
    /\ threads[t].pc = "store"
    /\ analysis_cache' = CacheSet(analysis_cache, _get_cache_key(threads[t].text),
                                  threads[t].analysis_result[1])
    /\ ThreadStep(t, "clean_len", <<>>)
    /\ UNCHANGED <<probe, gemini_enabled, gemini_analyzer, is_available, returned,
                   last_call, calls, heuristic_runs, requests, evicted_count,
                   next_text>>

\* Line 60: `if len(self.analysis_cache) > self.cache_max_size`; when it is
\* not, _clean_cache is over and line 127 returns.
ThreadCleanLen(t) ==
    /\ threads[t].pc = "clean_len"
    /\ IF Len(analysis_cache) > cache_max_size
       THEN ThreadStep(t, "clean_count", <<>>)
       ELSE ThreadReturn(t, threads[t].analysis_result[1])
    /\ UNCHANGED <<probe, analysis_cache, gemini_enabled, gemini_analyzer, is_available,
                   returned, last_call, calls, heuristic_runs, requests,
                   evicted_count, next_text>>

\* Line 62: `items_to_remove = len(self.analysis_cache) // 5`.
ThreadCleanCount(t) ==
    /\ threads[t].pc = "clean_count"
    /\ ThreadStep(t, "clean_keys", [items_to_remove |-> Len(analysis_cache) \div 5])
    /\ UNCHANGED <<probe, analysis_cache, gemini_enabled, gemini_analyzer, is_available,
                   returned, last_call, calls, heuristic_runs, requests,
                   evicted_count, next_text>>

\* Line 63: `keys_to_remove = list(self.analysis_cache.keys())[:items_to_remove]`.
ThreadCleanKeys(t) ==
    /\ threads[t].pc = "clean_keys"
    /\ ThreadStep(t, "clean_del",
           [keys_to_remove |->
               [i \in 1..Min({threads[t].items_to_remove, Len(analysis_cache)}) |->
                   analysis_cache[i].key]])
    /\ UNCHANGED <<probe, analysis_cache, gemini_enabled, gemini_analyzer, is_available,
                   returned, last_call, calls, heuristic_runs, requests,
                   evicted_count, next_text>>

\* Lines 64-65: one turn of `for key in keys_to_remove: del
\* self.analysis_cache[key]`, a KeyError when the key is gone; after the last
\* turn line 127 returns.
ThreadCleanDel(t) ==
    /\ threads[t].pc = "clean_del"
    /\ IF threads[t].keys_to_remove = <<>>
       THEN /\ ThreadReturn(t, threads[t].analysis_result[1])
            /\ UNCHANGED <<analysis_cache, evicted_count>>
       ELSE IF CacheHas(analysis_cache, Head(threads[t].keys_to_remove))
       THEN /\ analysis_cache' = SelectSeq(analysis_cache,
                    LAMBDA e : e.key # Head(threads[t].keys_to_remove))
            /\ evicted_count' = evicted_count + 1
            /\ ThreadStep(t, "clean_del",
                   [keys_to_remove |-> Tail(threads[t].keys_to_remove)])
       ELSE /\ ThreadRaise(t, "KeyError")
            /\ UNCHANGED <<analysis_cache, evicted_count>>
    /\ UNCHANGED <<probe, gemini_enabled, gemini_analyzer, is_available, returned,
                   last_call, calls, heuristic_runs, requests, next_text>>

NextThreads ==
    \/ Warmup
    \/ \E t \in Threads : ThreadStart(t)
    \/ \E t \in Threads : ThreadCheck(t)
    \/ \E t \in Threads : ThreadHitRead(t)
    \/ \E t \in Threads : ThreadCompute(t)
    \/ \E t \in Threads : ThreadStore(t)
    \/ \E t \in Threads : ThreadCleanLen(t)
    \/ \E t \in Threads : ThreadCleanCount(t)
    \/ \E t \in Threads : ThreadCleanKeys(t)
    \/ \E t \in Threads : ThreadCleanDel(t)

SpecThreads == Init /\ [][NextThreads]_vars

\* ------------------------------------------------ the confidence classifier
\* Scores are integers in thousandths and weights in hundredths; a confidence
\* is the fraction num/den of thousandths, so that no rounding is modelled.
Fraction(num, den) == [num |-> num, den |-> den]

\* a >= b for a fraction a and a number b of thousandths.
AtLeast(a, b) == a.num >= b * a.den

RECURSIVE SeqMax(_)
SeqMax(scores) ==
    IF Len(scores) = 1 THEN scores[1]
    ELSE IF scores[1] >= SeqMax(Tail(scores)) THEN scores[1] ELSE SeqMax(Tail(scores))

Factor(name, score, weight) == [name |-> name, score |-> score, weight |-> weight]

\* Lines 172-194 with only the verse match counted.
VerseMatchOnlyFactors(verse_matches, cultural_elements, text_length) ==
    IF verse_matches # <<>>
    THEN <<Factor("verse_match", SeqMax(verse_matches), 50)>>
    ELSE <<Factor("text_length", Min({text_length * 5, 100}), 5)>>

\* Lines 172-194 without the caps min(..., 0.3), min(..., 0.2), min(..., 0.15).
UncappedFactors(verse_matches, cultural_elements, text_length) ==
    (IF verse_matches # <<>>
     THEN <<Factor("verse_match", SeqMax(verse_matches), 50)>> ELSE <<>>)
    \o <<Factor("characters", cultural_elements.characters * 100, 20),
         Factor("keywords", cultural_elements.keywords * 50, 15)>>
    \o (IF cultural_elements.literary_significance > 0
        THEN <<Factor("literary", cultural_elements.literary_significance * 50, 10)>>
        ELSE <<>>)
    \o <<Factor("text_length", Min({text_length * 5, 100}), 5)>>

\* determine_kambaramayanam_content, lines 172-194: the confidence factors.
\* cultural_elements holds the lengths of the lists of identify_cultural_elements.
ConfidenceFactors(verse_matches, cultural_elements, text_length) ==
    (IF verse_matches # <<>>
     THEN <<Factor("verse_match", SeqMax(verse_matches), 50)>> ELSE <<>>)
    \o <<Factor("characters", Min({cultural_elements.characters * 100, 300}), 20),
         Factor("keywords", Min({cultural_elements.keywords * 50, 200}), 15)>>
    \o (IF cultural_elements.literary_significance > 0
        THEN <<Factor("literary",
                      Min({cultural_elements.literary_significance * 50, 150}), 10)>>
        ELSE <<>>)
    \o <<Factor("text_length", Min({text_length * 5, 100}), 5)>>

RECURSIVE TotalConfidence(_)
TotalConfidence(factors) ==
    IF factors = <<>> THEN 0
    ELSE factors[1].score * factors[1].weight + TotalConfidence(Tail(factors))

RECURSIVE TotalWeight(_)
TotalWeight(factors) ==
    IF factors = <<>> THEN 0 ELSE factors[1].weight + TotalWeight(Tail(factors))

\* Lines 196-204 dividing by the weight of the first factor only.
ConfidenceOverFirstWeight(factors) ==
    Fraction(TotalConfidence(factors), factors[1].weight)

\* Lines 196-204: total_confidence / total_weight, or 0.
FinalConfidence(factors) ==
    IF TotalWeight(factors) > 0
    THEN Fraction(TotalConfidence(factors), TotalWeight(factors))
    ELSE Fraction(0, 1)

\* Lines 204-209 given the factors.
Classification(factors) ==
    [is_kambaramayanam |-> AtLeast(FinalConfidence(factors), confidence_threshold),
     confidence |-> FinalConfidence(factors)]

\* TamilContextAnalyzer.determine_kambaramayanam_content
determine_kambaramayanam_content(verse_matches, cultural_elements, text_length) ==
    Classification(ConfidenceFactors(verse_matches, cultural_elements, text_length))

\* ------------------------------------------------------ analyze_text_context
\* What the collaborator's JSON object says under
\* literary_significance.is_kambaramayanam_verse.
Verdicts == {"absent", "true", "false"}

\* GeminiCulturalAnalyzer._parse_gemini_response: the text from the first '{'
\* to the last '}' through json.loads; None when there is none or it fails.
_parse_gemini_response(content) ==
    IF content.form \in {"json_object", "json_bad_types"} /\ content.fence # "unclosed"
    THEN "dict" ELSE "None"

\* GeminiCulturalAnalyzer._integrate_gemini_insights
_integrate_gemini_insights(basic_analysis, content, verdict) ==
    IF _parse_gemini_response(content) = "dict"
    THEN [basic_analysis EXCEPT
              !.is_kambaramayanam = IF verdict = "absent" THEN @ ELSE verdict = "true",
              !.nlp_enhanced = TRUE]
    ELSE [basic_analysis EXCEPT !.gemini_raw_insights = TRUE]

\* enhance_cultural_context, lines 119-139, given the reply of _call_gemini_api.
EnhancedWith(basic_analysis, gemini_response, verdict) ==
    IF gemini_response.success
    THEN [_integrate_gemini_insights(basic_analysis, gemini_response.content, verdict)
              EXCEPT !.gemini_analysis = TRUE]
    ELSE basic_analysis

\* GeminiCulturalAnalyzer.enhance_cultural_context
enhance_cultural_context(basic_analysis, http, verdict) ==
    IF ~is_available THEN basic_analysis
    ELSE EnhancedWith(basic_analysis, _call_gemini_api(http), verdict)

\* TamilContextAnalyzer.generate_analysis: the fields the classifier fills.
generate_analysis(text, classified) ==
    [is_kambaramayanam |-> classified.is_kambaramayanam,
     confidence |-> classified.confidence,
     text_length |-> text.length,
     verse_matches |-> SubSeq(text.matches, 1, Min({3, Len(text.matches)})),
     nlp_enhanced |-> FALSE,
     gemini_raw_insights |-> FALSE,
     gemini_analysis |-> FALSE]

\* Lines 73-79: the result for a blank text.
NoTextResult ==
    [is_kambaramayanam |-> FALSE, confidence |-> Fraction(0, 1), text_length |-> 0,
     verse_matches |-> <<>>, nlp_enhanced |-> FALSE, gemini_raw_insights |-> FALSE,
     gemini_analysis |-> FALSE]

\* Lines 97-107 given the basic analysis.
Step5(basic_analysis, http, verdict) ==
    IF gemini_enabled /\ gemini_analyzer # NoObject
    THEN enhance_cultural_context(basic_analysis, http, verdict)
    ELSE basic_analysis

\* TamilContextAnalyzer.analyze_text_context.  `text` holds what the function
\* reads of the text: whether it is blank, its length, the matches
\* find_matching_verses returns for it and the lists identify_cultural_elements
\* builds from it.
analyze_text_context(text, http, verdict) ==
    IF text.blank THEN NoTextResult
    ELSE Step5(generate_analysis(text,
                   determine_kambaramayanam_content(text.matches, text.elements,
                                                    text.length)),
               http, verdict)

\* The inputs of the classifier: match lists of up to MaxMatches scores, the
\* cultural elements found, the length of the text.
\* No score drawn puts a confidence exactly on the threshold, where the rounding
\* of the code's floating-point sums would decide.
Scores == {0, 499, 500, 700, 720, 1000}
MatchLists == UNION {[1..n -> Scores] : n \in 0..MaxMatches}
CharacterCounts == {0, 1, 3, 4, NumCharacters}
KeywordCounts == {0, 1, 4, 5, NumKeywords}
TextLengths == {1, 20, MaxTextLength}

ElementCounts ==
    [characters : CharacterCounts, keywords : KeywordCounts,
     literary_significance : 0..NumLiteraryDevices]

ClassifierInputs ==
    {[op |-> "input", blank |-> FALSE, length |-> n, matches |-> m, elements |-> e] :
         n \in TextLengths, m \in MatchLists, e \in ElementCounts}
    \cup {[op |-> "input", blank |-> TRUE, length |-> n, matches |-> <<>>,
           elements |-> [characters |-> 0, keywords |-> 0, literary_significance |-> 0]] :
             n \in {0, 1}}

\* find_matching_verses returns scores of at least its threshold 0.6, best
\* first.
FromSelector(matches) ==
    \A i \in DOMAIN matches :
        /\ matches[i] >= 600
        /\ i > 1 => matches[i - 1] >= matches[i]

\* A text holds the names found in it: four of the characters are keywords
\* too, the shortest name has four characters, a literary device needs two.
FromSomeText(text) ==
    /\ \E shared \in 0..4 :
           /\ text.elements.characters - shared \in 0..(NumCharacters - 4)
           /\ text.elements.keywords - shared \in 0..(NumKeywords - 4)
    /\ 4 * text.elements.characters <= text.length
    /\ 4 * text.elements.keywords <= text.length
    /\ 2 * text.elements.literary_significance <= text.length
    /\ FromSelector(text.matches)

InitClassify == Construct /\ probe \in ClassifierInputs

\* A direct call of the classifier on a synthetic match list.
Classify ==
    /\ probe.op = "input"
    /\ ~probe.blank
    /\ probe' = [op |-> "determine_kambaramayanam_content", input |-> probe,
                 result |-> determine_kambaramayanam_content(
                                probe.matches, probe.elements, probe.length)]
    /\ UNCHANGED <<analysis_cache, gemini_enabled, gemini_analyzer, is_available,
                   returned, last_call, calls, heuristic_runs, requests,
                   evicted_count, next_text, threads>>

ContextHttp ==
    {Http("timeout", NoText),
     Http("status_200", ReplyText("prose", "none", FALSE, FALSE)),
     Http("status_200", ReplyText("json_object", "json", FALSE, TRUE))}

AnalyzeTextContext ==
    /\ probe.op = "input"
    /\ probe.blank \/ FromSomeText(probe)
    /\ \E http \in ContextHttp, verdict \in Verdicts :
           probe' = [op |-> "analyze_text_context", input |-> probe,
                     http |-> http, verdict |-> verdict,
                     result |-> analyze_text_context(probe, http, verdict)]
    /\ UNCHANGED <<analysis_cache, gemini_enabled, gemini_analyzer, is_available,
                   returned, last_call, calls, heuristic_runs, requests,
                   evicted_count, next_text, threads>>

NextClassify == Classify \/ AnalyzeTextContext

SpecClassify == InitClassify /\ [][NextClassify]_vars

\* ------------------------------------------------------------------ texts
\* A text is a sequence of characters.  "a" and "b" stand for the letters the
\* cleaning keeps (Tamil and Latin), "A" and "B" for their upper case, "!" for
\* everything it removes.
QueryChars == {"a", "B", " ", "!"}
StringsUpTo(n) == UNION {[1..k -> QueryChars] : k \in 0..n}

IsSpace(c) == c \in {" ", "\n"}
IsLetter(c) == c \in {"a", "b", "A", "B"}
Lower(c) == IF c = "A" THEN "a" ELSE IF c = "B" THEN "b" ELSE c

RECURSIVE LStrip(_)
LStrip(s) == IF s # <<>> /\ IsSpace(s[1]) THEN LStrip(Tail(s)) ELSE s

RECURSIVE RStrip(_)
RStrip(s) ==
    IF s # <<>> /\ IsSpace(s[Len(s)]) THEN RStrip(SubSeq(s, 1, Len(s) - 1)) ELSE s

\* str.strip()
StripString(s) == RStrip(LStrip(s))

\* re.sub(r'\s+', ' ', s)
RECURSIVE CollapseSpaces(_)
CollapseSpaces(s) ==
    IF s = <<>> THEN <<>>
    ELSE IF IsSpace(s[1]) THEN <<" ">> \o CollapseSpaces(LStrip(s))
    ELSE <<s[1]>> \o CollapseSpaces(Tail(s))

\* re.sub(r'[^\u0B80-\u0BFF\u0020a-zA-Z]', '', s)
RemovePunctuation(s) == SelectSeq(s, LAMBDA c : IsLetter(c) \/ c = " ")

\* str.lower()
LowerString(s) == [i \in DOMAIN s |-> Lower(s[i])]

\* KambaramayanamDatabase.clean_text
clean_text(text) ==
    IF text = <<>> THEN <<>>
    ELSE LowerString(RemovePunctuation(CollapseSpaces(StripString(text))))

\* str.split(): the words between runs of whitespace; `word` is the word being
\* read.
RECURSIVE Split(_, _)
Split(s, word) ==
    IF s = <<>> THEN (IF word = <<>> THEN <<>> ELSE <<word>>)
    ELSE IF IsSpace(s[1])
    THEN (IF word = <<>> THEN <<>> ELSE <<word>>) \o Split(Tail(s), <<>>)
    ELSE Split(Tail(s), Append(word, s[1]))

Range(f) == {f[i] : i \in DOMAIN f}

\* ------------------------------------------------------------- similarity
\* difflib.SequenceMatcher(None, a, b) on texts of fewer than 200 characters
\* (no junk).  The blocks a[i..i+k-1] = b[j..j+k-1] inside a[alo..ahi] and
\* b[blo..bhi].
Blocks(a, b, alo, ahi, blo, bhi) ==
    {m \in [i : alo..ahi, j : blo..bhi, k : 1..(ahi - alo + 1)] :
        /\ m.i + m.k - 1 <= ahi
        /\ m.j + m.k - 1 <= bhi
        /\ \A d \in 0..(m.k - 1) : a[m.i + d] = b[m.j + d]}

\* find_longest_match: the longest block; of those the one that starts
\* earliest in a; of those the one that starts earliest in b.
Prefers(m, n) ==
    \/ m.k > n.k
    \/ m.k = n.k /\ m.i < n.i
    \/ m.k = n.k /\ m.i = n.i /\ m.j <= n.j

find_longest_match(a, b, alo, ahi, blo, bhi) ==
    CHOOSE m \in Blocks(a, b, alo, ahi, blo, bhi) :
        \A n \in Blocks(a, b, alo, ahi, blo, bhi) : Prefers(m, n)

\* get_matching_blocks: the longest block, then the same to its left and to
\* its right; the sum of the sizes of the blocks.
RECURSIVE MatchedChars(_, _, _, _, _, _)
RECURSIVE MatchedAround(_, _, _, _, _, _, _)
MatchedAround(a, b, alo, ahi, blo, bhi, m) ==
    m.k + MatchedChars(a, b, alo, m.i - 1, blo, m.j - 1)
        + MatchedChars(a, b, m.i + m.k, ahi, m.j + m.k, bhi)

MatchedChars(a, b, alo, ahi, blo, bhi) ==
    IF alo > ahi \/ blo > bhi \/ Blocks(a, b, alo, ahi, blo, bhi) = {} THEN 0
    ELSE MatchedAround(a, b, alo, ahi, blo, bhi,
                       find_longest_match(a, b, alo, ahi, blo, bhi))

\* SequenceMatcher.ratio: 2.0 * matches / (len(a) + len(b)), as a fraction.
SequenceRatio(a, b) ==
    IF Len(a) + Len(b) = 0 THEN Fraction(1, 1)
    ELSE Fraction(2 * MatchedChars(a, b, 1, Len(a), 1, Len(b)), Len(a) + Len(b))

\* Lines 418-436: intersection over union of two sets, 0.0 when one is empty.
Overlap(set1, set2) ==
    IF set1 = {} \/ set2 = {} THEN Fraction(0, 1)
    ELSE Fraction(Cardinality(set1 \cap set2), Cardinality(set1 \cup set2))

\* Line 440: seq * 0.5 + word * 0.3 + char * 0.2.
WeightedAverage(seq_similarity, word_similarity, char_similarity) ==
    Fraction(5 * seq_similarity.num * word_similarity.den * char_similarity.den
             + 3 * word_similarity.num * seq_similarity.den * char_similarity.den
             + 2 * char_similarity.num * seq_similarity.den * word_similarity.den,
             10 * seq_similarity.den * word_similarity.den * char_similarity.den)

\* calculate_similarity without the guard of line 411.
CalculateSimilarityUnguarded(text1, text2) ==
    WeightedAverage(SequenceRatio(text1, text2),
                    Overlap(Range(Split(text1, <<>>)), Range(Split(text2, <<>>))),
                    Overlap(Range(text1), Range(text2)))

\* KambaramayanamDatabase.calculate_similarity
calculate_similarity(text1, text2) ==
    IF text1 = <<>> \/ text2 = <<>> THEN Fraction(0, 1)
    ELSE WeightedAverage(SequenceRatio(text1, text2),
                         Overlap(Range(Split(text1, <<>>)), Range(Split(text2, <<>>))),
                         Overlap(Range(text1), Range(text2)))

\* Comparisons of two fractions with positive denominators.
Geq(x, y) == x.num * y.den >= y.num * x.den
Gt(x, y) == x.num * y.den > y.num * x.den
Same(x, y) == x.num * y.den = y.num * x.den
One == Fraction(1, 1)

\* ------------------------------------------------------------ the corpus
\* The table kambaramayanam_verses in insertion order (verse_id 1, 2, ...);
\* the lines of a verse are separated by "\n".
Corpus ==
    << <<"a", "\n", "b">>,
       <<"b", " ", "a">>,
       <<"a", "\n", "b">>,
       <<"b", "b", "\n", " ", "\n", "a", " ", "a">> >>

\* populate_sample_data, lines 207-213: text.split('\n'), each line stripped,
\* the blank ones dropped; `line` is the line being read.
RECURSIVE SplitLines(_, _)
SplitLines(text, line) ==
    IF text = <<>> THEN (IF StripString(line) = <<>> THEN <<>> ELSE <<StripString(line)>>)
    ELSE IF text[1] = "\n"
    THEN (IF StripString(line) = <<>> THEN <<>> ELSE <<StripString(line)>>)
         \o SplitLines(Tail(text), <<>>)
    ELSE SplitLines(Tail(text), Append(line, text[1]))

\* The line_number of the lines SplitLines keeps: the position in
\* text.split('\n'), blank lines counted; `number` is that of the line being
\* read.
RECURSIVE LineNumbers(_, _, _)
LineNumbers(text, line, number) ==
    IF text = <<>> THEN (IF StripString(line) = <<>> THEN <<>> ELSE <<number>>)
    ELSE IF text[1] = "\n"
    THEN (IF StripString(line) = <<>> THEN <<>> ELSE <<number>>)
         \o LineNumbers(Tail(text), <<>>, number + 1)
    ELSE LineNumbers(Tail(text), Append(line, text[1]), number)

\* The rows of `kambaramayanam_verses v LEFT JOIN verse_lines l` as SQLite
\* returns them: verse by verse, each verse once per line, or once with no
\* line (NULL: the empty text and the number 0).
VerseRows(verse_id, lines) ==
    IF lines = <<>>
    THEN <<[verse_id |-> verse_id, original |-> Corpus[verse_id], line_text |-> <<>>,
            line_num |-> 0]>>
    ELSE [n \in DOMAIN lines |->
             [verse_id |-> verse_id, original |-> Corpus[verse_id],
              line_text |-> lines[n],
              line_num |-> LineNumbers(Corpus[verse_id], <<>>, 1)[n]]]

RECURSIVE RowsFrom(_)
RowsFrom(verse_id) ==
    IF verse_id > Len(Corpus) THEN <<>>
    ELSE VerseRows(verse_id, SplitLines(Corpus[verse_id], <<>>)) \o RowsFrom(verse_id + 1)

Rows == RowsFrom(1)

\* ---------------------------------------------------- find_matching_verses
\* Line 313 with `>=`: a line that only equals the verse is taken for the match.
LineWinsTies(verse_similarity, line_similarity) ==
    Geq(line_similarity, verse_similarity)

\* Lines 313-315: `line_similarity > verse_similarity`.
LineWins(verse_similarity, line_similarity) ==
    Gt(line_similarity, verse_similarity)

\* Lines 289-299 and 302-316 for one row; None is the empty text for
\* matched_line and 0 for line_number.
Scored(row, verse_similarity, line_similarity) ==
    [verse_id |-> row.verse_id,
     similarity_score |->
         IF Geq(verse_similarity, line_similarity) THEN verse_similarity
         ELSE line_similarity,
     match_type |->
         IF LineWins(verse_similarity, line_similarity) THEN "line" ELSE "verse",
     matched_line |->
         IF LineWins(verse_similarity, line_similarity) THEN row.line_text ELSE <<>>,
     line_number |->
         IF LineWins(verse_similarity, line_similarity) THEN row.line_num ELSE 0]

ScoreRow(clean_input, row) ==
    Scored(row,
           calculate_similarity(clean_input, clean_text(row.original)),
           IF row.line_text # <<>>
           THEN calculate_similarity(clean_input, clean_text(row.line_text))
           ELSE Fraction(0, 1))

\* Line 301 with a strict comparison.
AboveThreshold(match, similarity_threshold) ==
    Gt(match.similarity_score, similarity_threshold)

\* Line 301: `if best_similarity >= similarity_threshold`.
ReachesThreshold(match, similarity_threshold) ==
    Geq(match.similarity_score, similarity_threshold)

\* Lines 320-324: unique_matches, a dict keyed by verse_id; a later match of
\* the same verse replaces the earlier one in place when it scores higher.
RECURSIVE Deduplicate(_, _)
Deduplicate(matches, unique_matches) ==
    IF matches = <<>> THEN unique_matches
    ELSE Deduplicate(Tail(matches),
             IF \A i \in DOMAIN unique_matches :
                    unique_matches[i].verse_id # matches[1].verse_id
             THEN Append(unique_matches, matches[1])
             ELSE [i \in DOMAIN unique_matches |->
                      IF /\ unique_matches[i].verse_id = matches[1].verse_id
                         /\ Gt(matches[1].similarity_score,
                               unique_matches[i].similarity_score)
                      THEN matches[1] ELSE unique_matches[i]])

\* A descending sort made of an ascending stable sort and a reversal: equal
\* scores come out in reverse order.
RECURSIVE SortThenReverse(_)
SortThenReverse(matches) ==
    IF matches = <<>> THEN <<>>
    ELSE SelectSeq(SortThenReverse(Tail(matches)),
                   LAMBDA m : Geq(m.similarity_score, matches[1].similarity_score))
         \o <<matches[1]>>
         \o SelectSeq(SortThenReverse(Tail(matches)),
                      LAMBDA m : Gt(matches[1].similarity_score, m.similarity_score))

\* Line 327: list.sort(key=similarity_score, reverse=True), a stable sort:
\* equal scores keep their order.
RECURSIVE SortDescending(_)
SortDescending(matches) ==
    IF matches = <<>> THEN <<>>
    ELSE SelectSeq(SortDescending(Tail(matches)),
                   LAMBDA m : Gt(m.similarity_score, matches[1].similarity_score))
         \o <<matches[1]>>
         \o SelectSeq(SortDescending(Tail(matches)),
                      LAMBDA m : Geq(matches[1].similarity_score, m.similarity_score))

\* Lines 282-327 once the rows are fetched.
MatchRows(clean_input, similarity_threshold) ==
    SortDescending(Deduplicate(
        SelectSeq([n \in DOMAIN Rows |-> ScoreRow(clean_input, Rows[n])],
                  LAMBDA match : ReachesThreshold(match, similarity_threshold)),
        <<>>))

\* KambaramayanamDatabase.find_matching_verses; db_fails: the cursor or the
\* query raises, which `except Exception` turns into [].
find_matching_verses(text, similarity_threshold, db_fails) ==
    IF StripString(text) = <<>> THEN <<>>
    ELSE IF db_fails THEN <<>>
    ELSE MatchRows(clean_text(text), similarity_threshold)

\* The default threshold 0.6, the smallest and the largest one.
Thresholds == {Fraction(3, 5), Fraction(0, 1), Fraction(1, 1)}

MatchInputs ==
    {[op |-> "query", text |-> text, similarity_threshold |-> t, db_fails |-> f] :
         text \in StringsUpTo(MaxLen), t \in Thresholds, f \in BOOLEAN}

InitMatch == Construct /\ probe \in MatchInputs

FindMatchingVerses ==
    /\ probe.op = "query"
    /\ probe' = [op |-> "find_matching_verses", input |-> probe,
                 result |-> find_matching_verses(probe.text, probe.similarity_threshold,
                                                 probe.db_fails)]
    /\ UNCHANGED <<analysis_cache, gemini_enabled, gemini_analyzer, is_available,
                   returned, last_call, calls, heuristic_runs, requests,
                   evicted_count, next_text, threads>>

NextMatch == FindMatchingVerses

SpecMatch == InitMatch /\ [][NextMatch]_vars

\* The pairs of texts calculate_similarity is asked about: every text with
\* itself, and every two texts of letters and spaces.
PairChars == QueryChars \ {"!"}
PairStrings(n) == UNION {[1..k -> PairChars] : k \in 0..n}

SimilarityInputs ==
    {[op |-> "pair", text1 |-> a, text2 |-> a] : a \in StringsUpTo(MaxLen)}
    \cup {[op |-> "pair", text1 |-> a, text2 |-> b] :
              a \in PairStrings(MaxLen), b \in PairStrings(MaxLen)}

InitSimilarity == Construct /\ probe \in SimilarityInputs

CalculateSimilarity ==
    /\ probe.op = "pair"
    /\ probe' = [op |-> "calculate_similarity", text1 |-> probe.text1,
                 text2 |-> probe.text2, normalized |-> FALSE,
                 result |-> calculate_similarity(probe.text1, probe.text2)]
    /\ UNCHANGED <<analysis_cache, gemini_enabled, gemini_analyzer, is_available,
                   returned, last_call, calls, heuristic_runs, requests,
                   evicted_count, next_text, threads>>

\* The way find_matching_verses calls it: on the cleaned texts.
CalculateSimilarityOfCleaned ==
    /\ probe.op = "pair"
    /\ probe' = [op |-> "calculate_similarity", text1 |-> probe.text1,
                 text2 |-> probe.text2, normalized |-> TRUE,
                 result |-> calculate_similarity(clean_text(probe.text1),
                                                 clean_text(probe.text2))]
    /\ UNCHANGED <<analysis_cache, gemini_enabled, gemini_analyzer, is_available,
                   returned, last_call, calls, heuristic_runs, requests,
                   evicted_count, next_text, threads>>

NextSimilarity == CalculateSimilarity \/ CalculateSimilarityOfCleaned

SpecSimilarity == InitSimilarity /\ [][NextSimilarity]_vars

\* ---------------------------------------------------------- entry points
\* Requests on texts of characters.  For the check of English words "a"
\* stands for a Tamil letter and "b", "B" for Latin ones.
IsLatin(c) == c \in {"b", "B"}

\* The maximal runs of word characters (\w) of a text; `word` is the run being
\* read.
RECURSIVE WordRuns(_, _)
WordRuns(s, word) ==
    IF s = <<>> THEN (IF word = <<>> THEN <<>> ELSE <<word>>)
    ELSE IF ~IsLetter(s[1])
    THEN (IF word = <<>> THEN <<>> ELSE <<word>>) \o WordRuns(Tail(s), <<>>)
    ELSE WordRuns(Tail(s), Append(word, s[1]))

\* re.findall(r'\b[a-zA-Z]+\b', text): a run of Latin letters between two word
\* boundaries is a whole run of word characters.
EnglishWords(text) ==
    SelectSeq(WordRuns(text, <<>>), LAMBDA w : \A i \in DOMAIN w : IsLatin(w[i]))

\* text.encode('utf-8'): the bytes of the raw text, read as a number; distinct
\* texts give distinct numbers.
ByteOf(c) ==
    CASE c = "a" -> 1 [] c = "b" -> 2 [] c = "A" -> 3 [] c = "B" -> 4
      [] c = " " -> 5 [] c = "\n" -> 6 [] OTHER -> 7

RECURSIVE Encode(_)
Encode(text) ==
    IF text = <<>> THEN 0 ELSE ByteOf(text[1]) + 8 * Encode(Tail(text))

\* The text with every whitespace character doubled.
RECURSIVE DoubleSpaces(_)
DoubleSpaces(text) ==
    IF text = <<>> THEN <<>>
    ELSE (IF IsSpace(text[1]) THEN <<text[1], text[1]>> ELSE <<text[1]>>)
         \o DoubleSpaces(Tail(text))

\* A text and the texts that differ from it in whitespace only.
Variants(text) ==
    {text, <<" ">> \o text, text \o <<" ">>, DoubleSpaces(text)}

\* What a client may post: no JSON body, a body without 'text', a 'text' that
\* is no string, and the texts, blank ones among them.
RequestBodies(text) ==
    {[kind |-> k, text |-> <<>>] : k \in {"none", "no_text", "number"}}
    \cup {[kind |-> "text", text |-> t] : t \in Variants(text) \cup {<<>>, <<" ", " ">>}}

EntryInputs ==
    {[op |-> "entry", entry |-> e, text |-> t] :
         e \in {"api", "api_down", "library", "context"},
         t \in StringsUpTo(MaxLen - 1)}

\* initialize_engines has run; under "api_down" it failed and left
\* semantic_analyzer None.
InitEntry == Construct /\ probe \in EntryInputs

\* An error response of api_analyze: nothing but the response is made.
ApiReject(data, code, error) ==
    /\ returned' = <<[status |-> "error", code |-> code, error |-> error]>>
    /\ last_call' = <<[entry |-> "api_analyze", data |-> data]>>
    /\ UNCHANGED <<analysis_cache, gemini_enabled, gemini_analyzer, is_available,
                   calls, heuristic_runs, requests, evicted_count, next_text,
                   threads, probe>>

\* Line 232 without the strip.
ApiTextRaw(data) == data.text

\* Line 232: text = data['text'].strip()
ApiText(data) == StripString(data.text)

\* semantic_app.api_analyze.  On success the response repeats the fields of
\* the analyzer's result, which `returned` holds.
api_analyze(semantic_analyzer, data) ==
    IF ~semantic_analyzer
    THEN ApiReject(data, 500, "Semantic analyzer not available")
    ELSE IF data.kind \in {"none", "no_text"}
    THEN ApiReject(data, 400, "No text provided in request")
    ELSE IF data.kind = "number"
    THEN ApiReject(data, 500, "Analysis failed")
    ELSE IF ApiText(data) = <<>>
    THEN ApiReject(data, 400, "Empty text provided")
    ELSE IF EnglishWords(ApiText(data)) # <<>>
    THEN ApiReject(data, 400, "English words found")
    ELSE Submit(Encode(ApiText(data)))

ApiAnalyze ==
    /\ probe.op = "entry"
    /\ probe.entry \in {"api", "api_down"}
    /\ calls < MaxCalls
    /\ \E data \in RequestBodies(probe.text) : api_analyze(probe.entry = "api", data)

\* A caller of the library passes the raw text.
AnalyzeDirect ==
    /\ probe.op = "entry"
    /\ probe.entry = "library"
    /\ calls < MaxCalls
    /\ \E text \in Variants(probe.text) : Submit(Encode(text))

\* find_matching_verses, line 262: similarity_threshold = 0.6
DefaultThreshold == Fraction(3, 5)

\* A score in thousandths, as the classifier of the model reads it.
Thousandths(x) == (1000 * x.num) \div x.den

\* identify_cultural_elements: no text of the model holds one of the names;
\* more than one '\n' makes a verse form.
CountNewlines(text) == Len(SelectSeq(text, LAMBDA c : c = "\n"))
identify_cultural_elements(text) ==
    [characters |-> 0, keywords |-> 0,
     literary_significance |-> IF CountNewlines(text) > 1 THEN 1 ELSE 0]

\* What analyze_text_context reads of a text, given the matches found.
ExtractedText(extracted_text, verse_matches) ==
    [blank |-> StripString(extracted_text) = <<>>,
     length |-> Len(extracted_text),
     matches |-> [i \in DOMAIN verse_matches |->
                     Thousandths(verse_matches[i].similarity_score)],
     elements |-> identify_cultural_elements(extracted_text)]

\* The requests of step 5.
ContextPosts(http) ==
    IF gemini_enabled /\ gemini_analyzer # NoObject
    THEN _call_gemini_api(http).posts ELSE 0

\* TamilContextAnalyzer.analyze_text_context on a text of characters: the
\* result, whether the corpus was queried, the requests posted.
AnalyzeExtracted(extracted_text, db_fails, http, verdict) ==
    IF StripString(extracted_text) = <<>>
    THEN [result |-> NoTextResult, queried |-> FALSE, posts |-> 0]
    ELSE [result |->
              analyze_text_context(
                  ExtractedText(extracted_text,
                      find_matching_verses(extracted_text, DefaultThreshold, db_fails)),
                  http, verdict),
          queried |-> TRUE,
          posts |-> ContextPosts(http)]

\* One call of analyze_text_context; the analyzer keeps nothing between calls.
AnalyzeExtractedText ==
    /\ probe.op = "entry"
    /\ probe.entry = "context"
    /\ returned = <<>>
    /\ \E text \in Variants(probe.text), db_fails \in BOOLEAN, http \in ContextHttp,
          verdict \in Verdicts :
        \E done \in {AnalyzeExtracted(text, db_fails, http, verdict)} :
            /\ returned' = <<done.result>>
            /\ last_call' = <<[entry |-> "analyze_text_context", text |-> text,
                               queried |-> done.queried, posts |-> done.posts]>>
            /\ requests' = requests + done.posts
            /\ UNCHANGED <<analysis_cache, gemini_enabled, gemini_analyzer,
                           is_available, calls, heuristic_runs, evicted_count,
                           next_text, threads, probe>>

NextEntry == ApiAnalyze \/ AnalyzeDirect \/ AnalyzeExtractedText

SpecEntry == InitEntry /\ [][NextEntry]_vars

\* ------------------------------------------------- one call, step by step
\* analyze_semantic_sentiment line by line; `probe` is the frame of the call in
\* progress.  pc names the statement to run next; filled holds the sections of
\* analysis_result that are no longer empty; enrichment tells whether the
\* branch of line 101 was taken.
Frame(text, http, elapsed) ==
    [op |-> "call", pc |-> "check", text |-> text, http |-> http,
     elapsed |-> elapsed, hit |-> FALSE, stamp |-> heuristic_runs + 1,
     requests_before |-> requests, filled |-> {}, enrichment |-> "pending",
     got |-> _get_gemini_semantic_sentiment(http), writes |-> 0]

Idle == probe.op = "none" \/ (probe.op = "call" /\ probe.pc = "returned")
At(pc) == probe.op = "call" /\ probe.pc = pc

\* The caller's turn: a new call.
BeginCall ==
    /\ Idle
    /\ calls < MaxCalls
    /\ \E text \in 1..NumTexts, http \in ContextHttp :
           probe' = Frame(text, http, WorkloadElapsed(text))
    /\ calls' = calls + 1
    /\ UNCHANGED <<analysis_cache, gemini_enabled, gemini_analyzer, is_available,
                   returned, last_call, heuristic_runs, requests, evicted_count,
                   next_text, threads>>

\* Lines 73-79.
CheckCache ==
    /\ At("check")
    /\ IF CacheHit(analysis_cache, _get_cache_key(probe.text))
       THEN /\ probe' = [probe EXCEPT !.pc = "returned", !.hit = TRUE]
            /\ returned' =
                   <<HitResult(CacheGet(analysis_cache, _get_cache_key(probe.text)))>>
       ELSE /\ probe' = [probe EXCEPT !.pc = "semantic"]
            /\ UNCHANGED returned
    /\ last_call' = <<[text |-> probe.text, hit |-> probe'.hit, http |-> probe.http]>>
    /\ next_text' = IF probe.text >= next_text THEN probe.text + 1 ELSE next_text
    /\ UNCHANGED <<analysis_cache, gemini_enabled, gemini_analyzer, is_available,
                   calls, heuristic_runs, requests, evicted_count, threads>>

\* Line 95.
BasicSemantic ==
    /\ At("semantic")
    /\ probe' = [probe EXCEPT !.pc = "sentiment",
                              !.filled = @ \cup {"semantic_analysis"}]
    /\ UNCHANGED <<analysis_cache, gemini_enabled, gemini_analyzer, is_available,
                   returned, last_call, calls, heuristic_runs, requests,
                   evicted_count, next_text, threads>>

\* Line 98.
BasicSentiment ==
    /\ At("sentiment")
    /\ probe' = [probe EXCEPT !.pc = "enhance",
                              !.filled = @ \cup {"sentiment_analysis"}]
    /\ heuristic_runs' = heuristic_runs + 1
    /\ UNCHANGED <<analysis_cache, gemini_enabled, gemini_analyzer, is_available,
                   returned, last_call, calls, requests, evicted_count, next_text,
                   threads>>

\* The enhancement entered before the sentiment section is filled.
EnhanceEarly(pc) == pc \in {"sentiment", "enhance"}

\* Where line 101 stands.
EnhanceAt(pc) == pc = "enhance"

\* Lines 101-115 with the branch taken.
Enrich ==
    /\ probe.op = "call"
    /\ EnhanceAt(probe.pc)
    /\ EnhancementAttempted
    /\ probe' = [probe EXCEPT !.pc = "store", !.enrichment = "attempted"]
    /\ requests' = requests + probe.got.posts
    /\ UNCHANGED <<analysis_cache, gemini_enabled, gemini_analyzer, is_available,
                   returned, last_call, calls, heuristic_runs, evicted_count,
                   next_text, threads>>

\* Line 101 with the branch not taken.
SkipEnrichment ==
    /\ probe.op = "call"
    /\ EnhanceAt(probe.pc)
    /\ ~EnhancementAttempted
    /\ probe' = [probe EXCEPT !.pc = "store", !.enrichment = "skipped"]
    /\ UNCHANGED <<analysis_cache, gemini_enabled, gemini_analyzer, is_available,
                   returned, last_call, calls, heuristic_runs, requests,
                   evicted_count, next_text, threads>>

\* The analysis_result of the frame.
FrameResult(frame) ==
    ResultDict(AssembleResult(frame.text, frame.elapsed, frame.stamp,
                              frame.enrichment = "attempted", frame.got))

\* Lines 117-122.
StoreResult ==
    /\ At("store")
    /\ analysis_cache' =
           CacheSet(analysis_cache, _get_cache_key(probe.text), FrameResult(probe))
    /\ probe' = [probe EXCEPT !.pc = "clean", !.writes = @ + 1]
    /\ UNCHANGED <<gemini_enabled, gemini_analyzer, is_available, returned,
                   last_call, calls, heuristic_runs, requests, evicted_count,
                   next_text, threads>>

\* Lines 123-127.
CleanAndReturn ==
    /\ At("clean")
    /\ analysis_cache' = _clean_cache(analysis_cache)
    /\ evicted_count' = evicted_count + (Len(analysis_cache) - Len(analysis_cache'))
    /\ returned' = <<FrameResult(probe)>>
    /\ probe' = [probe EXCEPT !.pc = "returned"]
    /\ UNCHANGED <<gemini_enabled, gemini_analyzer, is_available, last_call, calls,
                   heuristic_runs, requests, next_text, threads>>

NextSteps ==
    \/ BeginCall
    \/ CheckCache
    \/ BasicSemantic
    \/ BasicSentiment
    \/ Enrich
    \/ SkipEnrichment
    \/ StoreResult
    \/ CleanAndReturn

SpecSteps == Init /\ [][NextSteps]_vars

\* ------------------------------------------------- the sentiment heuristic
\* _basic_sentiment_analysis from the counts of lines 189-195 on: the numbers of
\* positive, negative and neutral indicators and of intensifiers found in the
\* text.  The confidence is a fraction.
IntensityMultiplier(intensifier_count) == Fraction(10 + 3 * intensifier_count, 10)

\* (score / total_score) * intensity_multiplier, capped at 1.0 (line 215).
Boosted(score, total_score, intensity_multiplier) ==
    IF score * intensity_multiplier.num >= total_score * intensity_multiplier.den
    THEN Fraction(1, 1)
    ELSE Fraction(score * intensity_multiplier.num,
                  total_score * intensity_multiplier.den)

\* Lines 198-215.
DetermineSentiment(positive_score, negative_score, neutral_score, intensifier_count) ==
    IF positive_score + negative_score + neutral_score = 0
    THEN [overall_sentiment |-> "neutral", confidence |-> Fraction(1, 2)]
    ELSE IF positive_score > negative_score
    THEN [overall_sentiment |-> "positive",
          confidence |-> Boosted(positive_score,
                                 positive_score + negative_score + neutral_score,
                                 IntensityMultiplier(intensifier_count))]
    ELSE IF negative_score > positive_score
    THEN [overall_sentiment |-> "negative",
          confidence |-> Boosted(negative_score,
                                 positive_score + negative_score + neutral_score,
                                 IntensityMultiplier(intensifier_count))]
    ELSE [overall_sentiment |-> "neutral",
          confidence |->
              IF neutral_score > 0
              THEN Fraction(neutral_score,
                            positive_score + negative_score + neutral_score)
              ELSE Fraction(1, 2)]

\* The counts a text can give.
SentimentInputs ==
    {[op |-> "counts", positive_score |-> p, negative_score |-> n,
      neutral_score |-> u, intensifier_count |-> i] :
         p \in 0..MaxIndicators, n \in 0..MaxIndicators, u \in 0..MaxIndicators,
         i \in 0..MaxIndicators}

InitSentiment == Construct /\ probe \in SentimentInputs

ScoreSentiment ==
    /\ probe.op = "counts"
    /\ probe' = [op |-> "_basic_sentiment_analysis", input |-> probe,
                 result |-> DetermineSentiment(probe.positive_score,
                                               probe.negative_score,
                                               probe.neutral_score,
                                               probe.intensifier_count)]
    /\ UNCHANGED <<analysis_cache, gemini_enabled, gemini_analyzer, is_available,
                   returned, last_call, calls, heuristic_runs, requests,
                   evicted_count, next_text, threads>>

NextSentiment == ScoreSentiment

SpecSentiment == InitSentiment /\ [][NextSentiment]_vars

\* ------------------------------------------------ TamilLiteraryOCRSystem
\* The stats dict of main_system.TamilLiteraryOCRSystem, held in `probe`
\* together with system_ready and the outcome of the last call.
ZeroStats ==
    [total_images_processed |-> 0, successful_extractions |-> 0,
     kambaramayanam_detections |-> 0, average_processing_time |-> Fraction(0, 1),
     total_processing_time |-> 0]

\* TamilLiteraryOCRSystem.__init__: _initialize_system succeeded, or the
\* object was left with system_ready False.
InitStats ==
    /\ Construct
    /\ probe \in {[op |-> "ocr_system", system_ready |-> r, stats |-> ZeroStats,
                    last |-> "none"] : r \in BOOLEAN}

\* TamilLiteraryOCRSystem._update_stats
_update_stats(stats, success, is_kambaramayanam, total_time) ==
    IF success
    THEN [total_images_processed |-> stats.total_images_processed + 1,
          successful_extractions |-> stats.successful_extractions + 1,
          kambaramayanam_detections |->
              stats.kambaramayanam_detections + (IF is_kambaramayanam THEN 1 ELSE 0),
          total_processing_time |-> stats.total_processing_time + total_time,
          average_processing_time |->
              Fraction(stats.total_processing_time + total_time,
                       stats.successful_extractions + 1)]
    ELSE stats

\* What one call of process_image meets: the image file, the OCR engine, the
\* context analyzer ("raises" also when its dict lacks a key), the clock, and
\* the writing of the results file.
ImageCalls ==
    [image_found : BOOLEAN, ocr_success : BOOLEAN,
     context : {"raises", "kambaramayanam", "other"},
     total_time : 0..MaxSeconds, save_results : BOOLEAN, save_succeeds : BOOLEAN]

\* Lines 100-174: the steps before _update_stats raise.  A total_time of 0
\* divides by zero at line 168.
FailsBeforeStats(call) ==
    \/ ~call.image_found
    \/ ~call.ocr_success
    \/ call.context = "raises"
    \/ call.total_time = 0

\* TamilLiteraryOCRSystem.process_image with system_ready True: the stats
\* after the call and the 'success' of the dict returned.
process_image(stats, call) ==
    IF FailsBeforeStats(call)
    THEN [stats |-> stats, success |-> FALSE]
    ELSE [stats |-> _update_stats(stats, TRUE, call.context = "kambaramayanam",
                                  call.total_time),
          success |-> ~(call.save_results /\ ~call.save_succeeds)]

UnchangedButProbe ==
    UNCHANGED <<analysis_cache, gemini_enabled, gemini_analyzer, is_available,
                returned, last_call, calls, heuristic_runs, requests,
                evicted_count, next_text, threads>>

ProcessImage ==
    /\ probe.op = "ocr_system"
    /\ probe.stats.total_images_processed < MaxImages
    /\ IF ~probe.system_ready
       THEN probe' = [probe EXCEPT !.last = "raised"]
       ELSE \E call \in ImageCalls :
                \E done \in {process_image(probe.stats, call)} :
                    probe' = [probe EXCEPT
                                 !.stats = done.stats,
                                 !.last = IF done.success THEN "success" ELSE "error"]
    /\ UnchangedButProbe

\* TamilLiteraryOCRSystem.reset_stats
ResetStats ==
    /\ probe.op = "ocr_system"
    /\ probe' = [probe EXCEPT !.stats = ZeroStats, !.last = "reset"]
    /\ UnchangedButProbe

NextStats == ProcessImage \/ ResetStats

SpecStats == InitStats /\ [][NextStats]_vars

\* ------------------------------------------------ ThreePartTamilAnalyzer
\* The analyzer of three_part_analyzer.py, held in `probe`: its own
\* analysis_cache (oldest entry first), is_available, the number of the next
\* text never seen, and what the last call returned.  Texts are numbers.
ThreePartKey(text) == <<"md5", text>>

\* What model.generate_content answers to each text: a reply with the three
\* parts, a reply without them, an empty reply, an exception.
ModelReplies == <<"structured", "unstructured", "empty", "raises">>
ModelReply(text) == ModelReplies[(text % Len(ModelReplies)) + 1]

\* Python's seq[:stop]
SliceBefore(seq, stop) ==
    IF stop >= 0
    THEN SubSeq(seq, 1, IF stop < Len(seq) THEN stop ELSE Len(seq))
    ELSE SubSeq(seq, 1, IF Len(seq) + stop > 0 THEN Len(seq) + stop ELSE 0)

\* A cleaning that removes the oldest fifth, as the cache of
\* SemanticSentimentAnalyzer does.
ThreePartCleanFifth(cache) ==
    IF Len(cache) > three_part_cache_max_size
    THEN SubSeq(cache, Len(cache) \div 5 + 1, Len(cache))
    ELSE cache

\* ThreePartTamilAnalyzer._clean_cache; -self.cache_max_size//2 is
\* (-cache_max_size) // 2.
ThreePartCleanCache(cache) ==
    IF Len(cache) > three_part_cache_max_size
    THEN LET keys_to_remove ==
                 SliceBefore([i \in 1..Len(cache) |-> cache[i].key],
                             (0 - three_part_cache_max_size) \div 2)
         IN  SelectSeq(cache, LAMBDA e :
                 \A i \in 1..Len(keys_to_remove) : keys_to_remove[i] # e.key)
    ELSE cache

\* ThreePartTamilAnalyzer._perform_three_part_analysis: the analysis_type of
\* the dict it returns.
_perform_three_part_analysis(available, reply) ==
    IF ~available THEN "fallback_basic"
    ELSE IF reply = "structured" THEN "three_part_comprehensive"
    ELSE IF reply = "unstructured" THEN "unstructured_extraction"
    ELSE "fallback_basic"

ThreePartCached(cache, text) ==
    \E i \in 1..Len(cache) : cache[i].key = ThreePartKey(text)

ThreePartEntry(cache, text) ==
    cache[CHOOSE i \in 1..Len(cache) : cache[i].key = ThreePartKey(text)]

\* dict assignment: a new key goes last.
ThreePartStore(cache, key, value) ==
    IF \E i \in 1..Len(cache) : cache[i].key = key
    THEN [i \in 1..Len(cache) |->
             IF cache[i].key = key THEN [key |-> key, value |-> value] ELSE cache[i]]
    ELSE Append(cache, [key |-> key, value |-> value])

\* ThreePartTamilAnalyzer.analyze_text_comprehensive
analyze_text_comprehensive(text, reply, elapsed) ==
    /\ probe.op = "three_part"
    /\ IF ThreePartCached(probe.analysis_cache, text)
       THEN probe' = [probe EXCEPT
                !.text = text,
                !.result = [ThreePartEntry(probe.analysis_cache, text).value EXCEPT
                               !.cached = TRUE,
                               !.processing_time = "0.01s (cached)"]]
       ELSE \E result \in {[analysis_type |->
                                _perform_three_part_analysis(probe.is_available, reply),
                            processing_time |-> elapsed, cached |-> FALSE]} :
                probe' = [probe EXCEPT
                    !.text = text,
                    !.result = result,
                    !.next_text = IF text = @ THEN @ + 1 ELSE @,
                    !.analysis_cache =
                        ThreePartCleanCache(
                            ThreePartStore(@, ThreePartKey(text), result))]
    /\ UnchangedButProbe

\* ThreePartTamilAnalyzer.__init__
InitThreePart ==
    /\ Construct
    /\ probe \in {[op |-> "three_part", analysis_cache |-> <<>>, is_available |-> a,
                    next_text |-> 1, text |-> 0,
                    result |-> [analysis_type |-> "none", processing_time |-> "none",
                                cached |-> FALSE]] : a \in BOOLEAN}

\* A text never analysed before.
AnalyzeFresh ==
    /\ probe.op = "three_part"
    /\ probe.next_text <= MaxAnalyzed
    /\ \E text \in {probe.next_text} :
           analyze_text_comprehensive(text, ModelReply(text), WorkloadElapsed(text))

\* The oldest or the newest text of the cache again.
AnalyzeAgain ==
    /\ probe.op = "three_part"
    /\ Len(probe.analysis_cache) > 0
    /\ \E i \in {1, Len(probe.analysis_cache)} :
           \E text \in {probe.analysis_cache[i].key[2]} :
               analyze_text_comprehensive(text, ModelReply(text), WorkloadElapsed(text))

NextThreePart == AnalyzeFresh \/ AnalyzeAgain

SpecThreePart == InitThreePart /\ [][NextThreePart]_vars

\* ================================================================ claims
Called == returned # <<>>
Result == returned[1]
Call == last_call[1]

\* The entries of `cache` from position `from` on.
EntriesFrom(cache, from) == SubSeq(cache, from, Len(cache))

\* C1: after every completed call of analyze_semantic_sentiment, starting from
\* the empty cache, analysis_cache holds at most cache_max_size entries.
C1_CacheBounded == Len(analysis_cache) <= cache_max_size

\* An eviction has happened and the cache has filled up to the bound again.
C1_Witness == evicted_count > 0 /\ Len(analysis_cache) = cache_max_size

\* C2: an insert that takes the size above cache_max_size evicts exactly the
\* oldest fifth (size \div 5) of the entries in insertion order and keeps the
\* rest in order; an insert that does not exceed the bound evicts nothing; a
\* hit leaves every entry where it is, so a hit entry is evicted by age.
C2_Step ==
    IF Call'.hit
    THEN analysis_cache' = analysis_cache
    ELSE LET inserted == Append(analysis_cache,
                                [key |-> _get_cache_key(Call'.text), value |-> Result'])
             n == Len(inserted)
         IN  IF n > cache_max_size
             THEN /\ analysis_cache' = EntriesFrom(inserted, (n \div 5) + 1)
                  /\ evicted_count' = evicted_count + (n \div 5)
             ELSE /\ analysis_cache' = inserted
                  /\ evicted_count' = evicted_count

C2_FifoEviction == [][C2_Step]_vars

\* The call that overflowed the cache for the first time, after text 1 had been
\* served from the cache as its oldest entry: text 1 is gone, the never-hit
\* texts behind it are still there.
C2_Witness ==
    /\ Called
    /\ ~Call.hit
    /\ Call.text = cache_max_size + 1
    /\ HitsDone >= 1
    /\ heuristic_runs = cache_max_size + 1
    /\ ~CacheHas(analysis_cache, _get_cache_key(1))
    /\ analysis_cache[1].key = _get_cache_key((cache_max_size + 1) \div 5 + 1)

\* Two result dicts that agree in every field outside `fields`.
SameExcept(a, b, fields) ==
    /\ DOMAIN a = DOMAIN b
    /\ \A k \in (DOMAIN a) \ fields : a[k] = b[k]

\* C3: the heuristic analyses and the collaborator run for a text only when
\* its key is absent from the cache; while the key is present every call is
\* served from the stored entry, degraded entries included.
C3_Step ==
    LET key == _get_cache_key(Call'.text) IN
    IF CacheHas(analysis_cache, key)
    THEN /\ Call'.hit
         /\ heuristic_runs' = heuristic_runs
         /\ requests' = requests
         /\ SameExcept(Result', CacheGet(analysis_cache, key), {"cached", "processing_time"})
    ELSE /\ ~Call'.hit
         /\ heuristic_runs' = heuristic_runs + 1

C3_ComputeOnlyOnMiss == [][C3_Step]_vars

\* A hit on an entry whose collaborator request had failed.
C3_Witness ==
    /\ Called
    /\ Call.hit
    /\ is_available
    /\ Call.http.kind \in FailureKinds
    /\ ~Result.enhanced_analysis
    /\ requests >= 1

\* The results that are exactly the heuristic baseline of their text.
HeuristicOnly(r) ==
    /\ r.semantic_analysis = _basic_semantic_analysis(r.input_text)
    /\ r.sentiment_analysis = _basic_sentiment_analysis(r.input_text)
    /\ ~r.enhanced_analysis

\* A miss on which the enhancement branch was entered.
AttemptedMiss == Called /\ ~Call.hit /\ EnhancementAttempted

\* C4: with the collaborator enabled, a call whose request times out, gets a
\* non-success status, gets no candidates or raises still returns a result:
\* the heuristic semantic and sentiment sections, enhanced_analysis false.
C4_FailureDegrades ==
    (AttemptedMiss /\ Call.http.kind \in FailureKinds) => HeuristicOnly(Result)

\* A request was posted and timed out.
C4_Witness ==
    /\ AttemptedMiss
    /\ is_available
    /\ Call.http.kind = "timeout"
    /\ requests >= 1

\* C5: after a failed collaborator request the returned result carries the
\* failure reason in its error field, with enhanced_analysis false and the
\* heuristic meaning.
C5_ErrorRecorded ==
    (AttemptedMiss /\ is_available /\ Call.http.kind \in FailureKinds) =>
        /\ Result.gemini_error # Absent
        /\ ~Result.enhanced_analysis
        /\ Result.semantic_analysis.meaning = _generate_basic_meaning(Call.text)

\* C6: with gemini_enabled false, no analyzer object, or is_available false, no
\* request is ever posted and every result is the heuristic one, with
\* enhanced_analysis false and no error field.
C6_UnavailableSkips ==
    (~gemini_enabled \/ gemini_analyzer = NoObject \/ ~is_available) =>
        /\ requests = 0
        /\ Called => (HeuristicOnly(Result) /\ Result.gemini_error = Absent)

\* The enhancement branch was entered with an analyzer that is not available.
C6_Witness ==
    /\ AttemptedMiss
    /\ ~is_available
    /\ Call.http.kind = "status_200"

\* A reply text that is not empty and that json.loads does not turn into a
\* dict: not JSON at all, or JSON that is no object.
Unparsable(t) ==
    /\ Truthy(Strip(t))
    /\ JsonLoads(StripFence(Strip(t))) # "dict"

\* C7: a successful reply with non-empty text that cannot be parsed as the
\* structured payload becomes the meaning as it is, with enhanced_analysis
\* true and no exception.
C7_UnparsableBecomesMeaning ==
    (AttemptedMiss /\ is_available /\ Call.http.kind = "status_200"
                   /\ Unparsable(Call.http.text)) =>
        /\ Result.semantic_analysis.meaning = Meaning("raw", 0, Strip(Call.http.text))
        /\ Result.enhanced_analysis
        /\ Result.gemini_error = Absent

\* C8 as stated: two calls in a row with the same text return results that
\* differ in the cached flag at most.
C8_IdenticalButCached ==
    [][(Called /\ Call'.text = Call.text) => SameExcept(Result', Result, {"cached"})]_vars

\* C8 as the code has it: they differ in the cached flag and in
\* processing_time at most, the second one carrying "0.1s (cached)".
C8_IdenticalButCachedAndTime ==
    [][(Called /\ Call'.text = Call.text) =>
          /\ SameExcept(Result', Result, {"cached", "processing_time"})
          /\ Result'.cached
          /\ Result'.processing_time = CachedProcessingTime]_vars

\* The second of two calls, the first of which computed an enhanced result.
C8_Witness ==
    /\ Called
    /\ calls = 2
    /\ heuristic_runs = 1
    /\ Call.hit
    /\ Result.enhanced_analysis

\* C9: a hit returns cached = true and leaves the cache as it was; a miss
\* stores the result under its key and returns it with cached = false; every
\* stored value has cached = false.
C9_Step ==
    LET key == _get_cache_key(Call'.text) IN
    /\ IF Call'.hit
       THEN /\ Result'.cached
            /\ analysis_cache' = analysis_cache
       ELSE /\ ~Result'.cached
            /\ CacheHas(analysis_cache', key)
            /\ CacheGet(analysis_cache', key) = Result'
    /\ \A i \in DOMAIN analysis_cache' : ~analysis_cache'[i].value.cached

C9_HitLeavesCache == [][C9_Step]_vars

\* A hit served after an eviction, the stored entry still unmarked.
C9_Witness ==
    /\ Called
    /\ Call.hit
    /\ Result.cached
    /\ evicted_count > 0
    /\ ~CacheGet(analysis_cache, _get_cache_key(Call.text)).cached

\* Texts 1..n were each inserted once, in this order, and nothing else.
DistinctInserted == next_text - 1
OnlyDistinctInserts == ReinsertsDone = 0
FirstEviction == (cache_max_size + 1) \div 5

\* C10 as stated: after cache_max_size + k distinct inserts the cache holds
\* cache_max_size - evicted_count entries.
C10_SizeIsMaxMinusEvicted ==
    (OnlyDistinctInserts /\ DistinctInserted > cache_max_size) =>
        Len(analysis_cache) = cache_max_size - evicted_count

\* C10 as the code has it: for 1 <= k <= (cache_max_size + 1) \div 5 the
\* oldest fifth was evicted once, the cache holds cache_max_size + k -
\* evicted_count entries, and they are the newest four fifths of the first
\* cache_max_size texts followed by the k most recent.
C10_SurvivorsAfterOverflow ==
    LET k == DistinctInserted - cache_max_size IN
    (OnlyDistinctInserts /\ k >= 1 /\ k <= FirstEviction) =>
        /\ evicted_count = FirstEviction
        /\ Len(analysis_cache) = cache_max_size + k - evicted_count
        /\ \A i \in DOMAIN analysis_cache :
               analysis_cache[i].key = _get_cache_key(evicted_count + i)

\* The cache is full again, one insert before the second eviction.
C10_Witness ==
    /\ OnlyDistinctInserts
    /\ DistinctInserted = cache_max_size + FirstEviction
    /\ Len(analysis_cache) = cache_max_size

\* ---------------------------------------------------------------- C11
\* C11: each call of analyze_semantic_sentiment issues at most one request to
\* the collaborator; a failed request is not retried within the call and a
\* cache hit issues none.
C11_Step ==
    calls' = calls + 1 =>
        /\ requests' - requests \in {0, 1}
        /\ last_call'[1].hit => requests' = requests
        /\ (~last_call'[1].hit /\ last_call'[1].http \in FailedHttp) =>
               requests' - requests = IF EnhancementAttempted /\ is_available
                                      THEN 1 ELSE 0

C11_SingleRequest == [][C11_Step]_vars

\* A failed request was made by the first call and the second call, a hit on
\* the same text, made none.
C11_Witness ==
    /\ calls = 2 /\ Called /\ Call.hit
    /\ requests = 1
    /\ EnhancementAttempted /\ is_available
    /\ ~Result.enhanced_analysis

\* ---------------------------------------------------------------- C12
\* C12: with two worker threads on the shared analyzer no interleaving makes a
\* call fail with an exception from the cache bookkeeping, neither the read
\* after the membership check nor the deletions of two eviction loops.
C12_NoBookkeepingException ==
    \A t \in Threads : threads[t].pc # "raised"

\* ---------------------------------------------------------------- C13
SameTextMisses ==
    /\ \A t \in Threads : Finished(t) /\ threads[t].analysis_result # <<>>
    /\ threads[1].text = threads[2].text

\* C13: when two threads have missed on the same text and both calls have
\* finished, the cache holds exactly one entry for the key, its value is one of
\* the two computed results, and the cache is within its bound.
C13_OneEntryAfterDuplicateMiss ==
    SameTextMisses =>
        /\ Cardinality({i \in DOMAIN analysis_cache :
               analysis_cache[i].key = _get_cache_key(threads[1].text)}) = 1
        /\ CacheGet(analysis_cache, _get_cache_key(threads[1].text))
               \in {threads[t].analysis_result[1] : t \in Threads}
        /\ Len(analysis_cache) <= cache_max_size

\* Both threads computed the same text with different results while the cache
\* was full, and an eviction ran.
C13_Witness ==
    /\ SameTextMisses
    /\ threads[1].analysis_result # threads[2].analysis_result
    /\ evicted_count > 0
    /\ CacheGet(analysis_cache, _get_cache_key(threads[1].text))
           = threads[1].analysis_result[1]

\* ---------------------------------------------------------------- C14
Analyzed == probe.op = "analyze_text_context"
Classified == probe.op = "determine_kambaramayanam_content"

\* C14: in every result of analyze_text_context for a non-empty text, enriched
\* or not, is_kambaramayanam is true exactly when the reported confidence is at
\* least the confidence threshold.
C14_FlagMatchesConfidence ==
    (Analyzed /\ ~probe.input.blank) =>
        (probe.result.is_kambaramayanam
            <=> AtLeast(probe.result.confidence, confidence_threshold))

\* ---------------------------------------------------------------- C15
TopScore == SeqMax(probe.input.matches)

\* C15 as stated: a top score exactly at the confidence threshold classifies as
\* known work, a top score just below it does not.
C15_TopScoreAtThreshold ==
    (Classified /\ probe.input.matches # <<>>) =>
        /\ TopScore = confidence_threshold => probe.result.is_kambaramayanam
        /\ TopScore = confidence_threshold - 1 => ~probe.result.is_kambaramayanam

\* C15 amended: the threshold is compared, inclusively, with the weighted
\* confidence and not with the top score; a top score at the threshold or just
\* below it classifies as not known work whatever the other signals are.
C15_ConfidenceAtThreshold ==
    (Classified /\ probe.input.matches # <<>>) =>
        /\ probe.result.is_kambaramayanam
               <=> probe.result.confidence.num
                       >= confidence_threshold * probe.result.confidence.den
        /\ TopScore <= confidence_threshold => ~probe.result.is_kambaramayanam

\* A top score exactly at the threshold with every other signal at its cap.
C15_Witness ==
    /\ Classified /\ probe.input.matches # <<>>
    /\ TopScore = confidence_threshold
    /\ probe.input.elements.characters >= 3
    /\ probe.input.elements.keywords >= 4
    /\ probe.input.length >= 20
    /\ ~probe.result.is_kambaramayanam

\* ---------------------------------------------------------------- C16
\* C16: when the match selector returned no candidate the classifier reports
\* not known work with a confidence below 0.5, whatever the entities,
\* keywords, structural signals and text length.
C16_NoMatchBelowThreshold ==
    (Classified /\ probe.input.matches = <<>>) =>
        /\ ~probe.result.is_kambaramayanam
        /\ probe.result.confidence.num < 500 * probe.result.confidence.den

\* No candidate and every other signal at its largest.
C16_Witness ==
    /\ Classified /\ probe.input.matches = <<>>
    /\ probe.input.elements.characters = NumCharacters
    /\ probe.input.elements.keywords = NumKeywords
    /\ probe.input.elements.literary_significance = NumLiteraryDevices
    /\ probe.input.length = MaxTextLength

\* ---------------------------------------------------------------- C17
\* C17: the confidence the classifier returns lies in [0, 1].
C17_ConfidenceInUnitInterval ==
    Classified =>
        /\ probe.result.confidence.den > 0
        /\ probe.result.confidence.num >= 0
        /\ probe.result.confidence.num <= 1000 * probe.result.confidence.den

\* The largest inputs: a top score of 1.0 and every other signal at its cap.
C17_Witness ==
    /\ Classified /\ probe.input.matches # <<>>
    /\ TopScore = 1000
    /\ probe.input.elements.characters = NumCharacters
    /\ probe.input.elements.keywords = NumKeywords
    /\ probe.input.length = MaxTextLength
    /\ probe.result.is_kambaramayanam

\* ---------------------------------------------------------------- C18
Matched == probe.op = "find_matching_verses"

\* The best similarity score of a verse: the largest over its text and its
\* lines.
RowScores(verse_id, clean_input) ==
    {ScoreRow(clean_input, Rows[n]).similarity_score :
         n \in {n \in DOMAIN Rows : Rows[n].verse_id = verse_id}}

BestScore(verse_id, clean_input) ==
    CHOOSE x \in RowScores(verse_id, clean_input) :
        \A y \in RowScores(verse_id, clean_input) : Geq(x, y)

Qualifying(input) ==
    {v \in DOMAIN Corpus :
         Geq(BestScore(v, clean_text(input.text)), input.similarity_threshold)}

\* C18: find_matching_verses returns exactly the verses whose best similarity
\* score is at least the threshold, each once and with that score, and an
\* empty list when the text is blank or the query of the corpus fails.
C18_ExactlyTheQualifying ==
    Matched =>
        IF StripString(probe.input.text) = <<>> \/ probe.input.db_fails
        THEN probe.result = <<>>
        ELSE /\ {probe.result[i].verse_id : i \in DOMAIN probe.result}
                    = Qualifying(probe.input)
             /\ \A i, j \in DOMAIN probe.result :
                    probe.result[i].verse_id = probe.result[j].verse_id => i = j
             /\ \A i \in DOMAIN probe.result :
                    /\ Geq(probe.result[i].similarity_score,
                           probe.input.similarity_threshold)
                    /\ Same(probe.result[i].similarity_score,
                            BestScore(probe.result[i].verse_id,
                                      clean_text(probe.input.text)))

\* A verse scores exactly the threshold and is returned, another verse scores
\* below it and is not.
C18_Witness ==
    /\ Matched /\ ~probe.input.db_fails
    /\ \E i \in DOMAIN probe.result :
           Same(probe.result[i].similarity_score, probe.input.similarity_threshold)
    /\ Len(probe.result) < Len(Corpus)
    /\ probe.input.similarity_threshold # Fraction(0, 1)

\* ---------------------------------------------------------------- C19
\* C19: the list find_matching_verses returns is ordered best first: the scores
\* do not increase along it and verses with equal scores are in the order of
\* their insertion into the corpus.
C19_BestFirstStable ==
    Matched =>
        \A i, j \in DOMAIN probe.result :
            i < j =>
                /\ Geq(probe.result[i].similarity_score, probe.result[j].similarity_score)
                /\ Same(probe.result[i].similarity_score,
                        probe.result[j].similarity_score)
                       => probe.result[i].verse_id < probe.result[j].verse_id

\* The sort moved a later verse to the front and left two verses of equal
\* score behind it.
C19_Witness ==
    /\ Matched
    /\ Len(probe.result) >= 3
    /\ probe.result[1].verse_id > probe.result[2].verse_id
    /\ Gt(probe.result[1].similarity_score, probe.result[2].similarity_score)
    /\ Same(probe.result[2].similarity_score, probe.result[3].similarity_score)

\* ---------------------------------------------------------------- C20
Compared == probe.op = "calculate_similarity"

\* C20: for every non-empty text a, calculate_similarity(a, a) is 1.0, also
\* for a text of whitespace only and for a text whose cleaned form is empty
\* when the texts are cleaned first.
C20_SelfSimilarityIsOne ==
    (Compared /\ probe.text1 = probe.text2 /\ probe.text1 # <<>>) =>
        Same(probe.result, One)

\* ---------------------------------------------------------------- C21
\* The two texts calculate_similarity was given.
Argument1 == IF probe.normalized THEN clean_text(probe.text1) ELSE probe.text1
Argument2 == IF probe.normalized THEN clean_text(probe.text2) ELSE probe.text2

\* C21: for all strings a and b, calculate_similarity(a, b) equals
\* calculate_similarity(b, a).
C21_SimilarityIsSymmetric ==
    Compared => Same(probe.result, calculate_similarity(Argument2, Argument1))

\* ---------------------------------------------------------------- C22
\* C22: calculate_similarity returns 0.0 whenever one of its arguments is the
\* empty string, and no division in it has a zero divisor, also when a text
\* has no words.
C22_EmptyGivesZero ==
    Compared =>
        /\ probe.result.den # 0
        /\ (Argument1 = <<>> \/ Argument2 = <<>>) => probe.result.num = 0

\* Reached: both arguments empty, and a call on a text without words went
\* through the three methods.
C22_Witness ==
    /\ Compared
    /\ Argument1 = <<>>
    /\ Argument2 = <<>>
    /\ probe.normalized
    /\ probe.text1 # <<>>
    /\ probe.result.num = 0

\* ---------------------------------------------------------------- C23
Blank(text) == StripString(text) = <<>>
Entered(entry) ==
    last_call # <<>> /\ "entry" \in DOMAIN last_call[1] /\ last_call[1].entry = entry

C23_Step ==
    /\ (probe.entry \in {"api", "api_down"} /\ calls' # calls) =>
           \A data \in RequestBodies(probe.text) :
               Blank(data.text) => last_call'[1].text # Encode(data.text)
    /\ (last_call' # last_call /\ Entered("api_analyze")'
        /\ last_call'[1].data.kind = "text" /\ Blank(last_call'[1].data.text)) =>
           /\ returned'[1].status = "error"
           /\ UNCHANGED <<analysis_cache, calls, heuristic_runs, requests>>
    /\ (last_call' # last_call /\ Entered("analyze_text_context")'
        /\ Blank(last_call'[1].text)) =>
           /\ returned'[1] = NoTextResult
           /\ ~last_call'[1].queried
           /\ last_call'[1].posts = 0
           /\ UNCHANGED <<analysis_cache, requests>>

\* C23: a text that is empty after trimming never reaches the analyzer through
\* /api/analyze, which answers with an error; analyze_text_context returns for
\* it without a query of the corpus and without a request to the collaborator;
\* both leave the result cache as it was.
C23_BlankRejectedAtEntry == [][C23_Step]_vars

\* Reached: /api/analyze turned a blank text away after a call had filled the
\* cache.
C23_Witness ==
    /\ Entered("api_analyze")
    /\ last_call[1].data.kind = "text"
    /\ last_call[1].data.text = <<" ", " ">>
    /\ returned[1].status = "error"
    /\ calls = 1
    /\ Len(analysis_cache) = 1

\* ---------------------------------------------------------------- C24
C24_Step ==
    (/\ probe.entry = "library"
     /\ calls = 1
     /\ calls' = 2
     /\ last_call'[1].text # last_call[1].text) =>
        /\ ~last_call'[1].hit
        /\ Len(analysis_cache') = 2
        /\ CacheHas(analysis_cache', _get_cache_key(last_call[1].text))
        /\ CacheHas(analysis_cache', _get_cache_key(last_call'[1].text))

\* C24: two calls of analyze_semantic_sentiment whose texts differ only in
\* whitespace use different cache keys: the second call is a miss and each
\* text gets an entry of its own.
C24_WhitespaceVariantsMiss == [][C24_Step]_vars

\* Reached: two texts that differ in whitespace, each with its entry.
C24_Witness ==
    /\ probe.op = "entry"
    /\ probe.entry = "library"
    /\ probe.text # <<>>
    /\ calls = 2
    /\ Len(analysis_cache) = 2
    /\ ~last_call[1].hit

\* ---------------------------------------------------------------- C25
Miss == probe.op = "call" /\ ~probe.hit /\ probe.pc # "check"
Heuristics == {"semantic_analysis", "sentiment_analysis"}

\* The state of the orchestrator a frame is in.
OrchestratorState(frame) ==
    IF frame.pc = "returned" THEN "FINAL"
    ELSE IF frame.enrichment = "attempted" THEN "ENRICHING"
    ELSE IF frame.enrichment = "skipped" THEN "SKIPPED"
    ELSE IF frame.filled = Heuristics THEN "HEURISTIC_DONE"
    ELSE "INIT"

\* C25: on a miss both heuristic analyses are complete before the collaborator
\* is invoked and before the enrichment is attempted or skipped; the result is
\* written to the cache once, and only after that; the call does not return
\* without the write.
C25_MissFollowsTheStates ==
    Miss =>
        /\ (requests > probe.requests_before \/ probe.enrichment # "pending") =>
               probe.filled = Heuristics
        /\ probe.writes <= 1
        /\ probe.writes = 1 =>
               /\ OrchestratorState(probe) \in {"ENRICHING", "SKIPPED", "FINAL"}
               /\ CacheHas(analysis_cache, _get_cache_key(probe.text))
        /\ OrchestratorState(probe) \in {"INIT", "HEURISTIC_DONE"} =>
               ~CacheHas(analysis_cache, _get_cache_key(probe.text))
        /\ OrchestratorState(probe) = "FINAL" =>
               /\ probe.writes = 1
               /\ probe.enrichment # "pending"
               /\ CacheGet(analysis_cache, _get_cache_key(probe.text)) = returned[1]

\* Reached: a miss that posted to the collaborator is back with its result
\* cached, after an earlier call.
C25_Witness ==
    /\ Miss
    /\ OrchestratorState(probe) = "FINAL"
    /\ requests > probe.requests_before
    /\ calls = 2
    /\ probe.writes = 1

\* ---------------------------------------------------------------- C26
\* The factors with a non-zero score.
Contributing(factors) == SelectSeq(factors, LAMBDA f : f.score > 0)

\* C26: the classifier divides the weighted sum of the factor scores by the sum
\* of the weights of the factors with a non-zero contribution only; a factor
\* whose score is zero adds nothing to the denominator.
C26_OnlyContributingWeights ==
    probe.op = "determine_kambaramayanam_content" =>
        Same(probe.result.confidence,
             FinalConfidence(Contributing(
                 ConfidenceFactors(probe.input.matches, probe.input.elements,
                                   probe.input.length))))

\* ---------------------------------------------------------------- C27
\* The rows of a verse, and the scores of the query against its lines.
RowsOf(verse_id) == {n \in DOMAIN Rows : Rows[n].verse_id = verse_id}
VerseScore(verse_id, clean_input) ==
    calculate_similarity(clean_input, clean_text(Corpus[verse_id]))
LineScore(n, clean_input) ==
    IF Rows[n].line_text = <<>> THEN Fraction(0, 1)
    ELSE calculate_similarity(clean_input, clean_text(Rows[n].line_text))

\* C27: find_matching_verses returns at most one candidate per verse; its score
\* is the largest of the similarity to the text of the verse and the
\* similarities to its lines; it is tagged 'line', with the matched line and
\* its number, exactly when a line scores strictly higher than the text of the
\* verse, and 'verse', with neither, otherwise.
C27_OneCandidateBestOfVerseAndLines ==
    (Matched /\ probe.result # <<>>) =>
        /\ \A i, j \in DOMAIN probe.result :
               probe.result[i].verse_id = probe.result[j].verse_id => i = j
        /\ \A i \in DOMAIN probe.result :
               \E match \in {probe.result[i]}, clean_input \in {clean_text(probe.input.text)} :
                   /\ Geq(match.similarity_score, VerseScore(match.verse_id, clean_input))
                   /\ \A n \in RowsOf(match.verse_id) :
                          Geq(match.similarity_score, LineScore(n, clean_input))
                   /\ IF \E n \in RowsOf(match.verse_id) :
                             Gt(LineScore(n, clean_input),
                                VerseScore(match.verse_id, clean_input))
                      THEN /\ match.match_type = "line"
                           /\ \E n \in RowsOf(match.verse_id) :
                                  /\ match.matched_line = Rows[n].line_text
                                  /\ match.line_number = Rows[n].line_num
                                  /\ match.line_number > 0
                                  /\ Same(match.similarity_score, LineScore(n, clean_input))
                      ELSE /\ match.match_type = "verse"
                           /\ match.matched_line = <<>>
                           /\ match.line_number = 0
                           /\ Same(match.similarity_score,
                                   VerseScore(match.verse_id, clean_input))

\* Reached: one verse matched by its third line, another by its text, whose
\* only line scores the same.
C27_Witness ==
    /\ Matched
    /\ \E i, j \in DOMAIN probe.result :
           /\ probe.result[i].match_type = "line"
           /\ probe.result[i].line_number = 3
           /\ probe.result[j].match_type = "verse"
           /\ probe.result[j].verse_id = 2

\* ---------------------------------------------------------------- C28
\* C28: when the positive and the negative counts are equal, and so when there
\* is no indicator at all, the heuristic sentiment is neutral with confidence
\* 0.5, whatever the neutral count and the intensifier count.
C28_TieIsNeutralHalf ==
    (probe.op = "_basic_sentiment_analysis"
     /\ probe.input.positive_score = probe.input.negative_score) =>
        /\ probe.result.overall_sentiment = "neutral"
        /\ Same(probe.result.confidence, Fraction(1, 2))

\* ---------------------------------------------------------------- C29
C29_Step ==
    /\ probe'.stats.total_images_processed = probe'.stats.successful_extractions
    /\ probe'.stats.kambaramayanam_detections <= probe'.stats.successful_extractions
    /\ probe'.last = "error" => probe'.stats = probe.stats
    /\ probe'.last = "reset" => probe'.stats = ZeroStats

\* C29: after any sequence of process_image and reset_stats calls
\* total_images_processed equals successful_extractions and
\* kambaramayanam_detections is at most successful_extractions; a call of
\* process_image that returns success False leaves every statistic as it was;
\* reset_stats sets every counter to zero.
C29_StatsConsistent == [][C29_Step]_vars

\* ---------------------------------------------------------------- C30
C30_Miss == probe'.next_text = probe.next_text + 1

C30_Step ==
    /\ Len(probe'.analysis_cache) <= 100
    /\ (C30_Miss /\ Len(probe.analysis_cache) = 100) =>
           probe'.analysis_cache =
               [i \in 1..50 |->
                   [key |-> <<"md5", probe.next_text - 50 + i>>,
                    value |-> probe'.analysis_cache[i].value]]
    /\ C30_Miss =>
           \E i \in 1..Len(probe'.analysis_cache) :
               /\ probe'.analysis_cache[i].key = <<"md5", probe.next_text>>
               /\ probe'.analysis_cache[i].value = probe'.result
               /\ probe'.result.analysis_type \in
                      {"three_part_comprehensive", "unstructured_extraction",
                       "fallback_basic"}

\* C30: after every completed call of analyze_text_comprehensive the cache of
\* ThreePartTamilAnalyzer holds at most 100 entries; an insert that brings it
\* to 101 leaves exactly the newest 50; a result of the fallback path is
\* cached like a successful one.
C30_CacheHalvedAtCapacity == [][C30_Step]_vars

\* The 101st text, answered by the fallback, has just been cached and the
\* cache cut down.
C30_Witness ==
    /\ probe.op = "three_part"
    /\ probe.next_text = 102
    /\ probe.text = 101
    /\ probe.result.analysis_type = "fallback_basic"
    /\ ~probe.result.cached
    /\ Len(probe.analysis_cache) = 50

====
